---- MODULE Spec2Model ----
(***************************************************************************)
(* smtogo: an HTTP gateway that validates a mail-send request, answers the *)
(* caller, and dispatches the message over SMTP in a background goroutine  *)
(* that writes one outcome record per dispatch.                            *)
(*                                                                         *)
(* Strings are sequences of one-character strings, so that length,         *)
(* containment, case folding, trimming and concatenation are computed as   *)
(* the Go code computes them.                                              *)
(***************************************************************************)
EXTENDS Integers, Sequences, FiniteSets, TLC

VARIABLES
    cfg,        \* *config.Config, resolved once at start-up
    alive,      \* the process is running (FALSE after an unrecovered panic)
    nextUUID,   \* number of UUIDs uuid.New() has handed out
    hpc,        \* per request: position of its HTTP handler
    resp,       \* per request: the HTTP response written, or NoValue
    job,        \* per request: what the handler handed to its goroutine, or NoValue
    gpc,        \* per request: position of its background goroutine
    msg,        \* per request: the gomail message composed for it, or NoValue
    calls,      \* per request: results of the sendMessage calls made for it
    fetches,    \* per request: the addAttachment calls of its goroutine, with their results
    files,      \* the data/ tree: path -> file content
    store,      \* the MinIO bucket: set of object names
    inbox,      \* per request: the request as it arrived, or NoValue
    writes,     \* per request: the file writes its goroutine attempted, with their outcomes
    ret,        \* per request: what SendEmail returned to its goroutine, or NotReturned
    clock,      \* the instant time.Now() returns, in ticks since 00:00 UTC of day 0
    zone,       \* offset of the process's time.Local from UTC, in ticks
    vreq,       \* the request handed to validateEmailRequest on its own
    vout        \* what validateEmailRequest returned for vreq

vars == <<cfg, alive, nextUUID, hpc, resp, job, gpc, msg, calls, files, store, inbox,
          writes, ret, clock, zone, vreq, vout, fetches>>

----------------------------------------------------------------------------
(* Bounds of the model *)

\* number of HTTP requests one run of the model receives
MaxRequests == 2
\* max_len_recipient_email of the configurations explored
CfgMaxLenRecipientEmail == 5
\* max_len_subject of the configurations explored
CfgMaxLenSubject == 2
\* max_len_body of the configurations explored
CfgMaxLenBody == 2
\* how many characters beyond a limit a submitted field may have
OverLimit == 1
\* the clock readings of one run of the model, and how many make a day
MaxClock == 2
TicksPerDay == 2
\* the largest offset of the local time zone from UTC, in ticks
MaxZoneOffset == 1
\* number of saveEmailResult calls in one run of the recorder on its own
MaxRecordings == 3

\* the 2 MiB ceiling of one attachment, handlers.go:215 (2*1024*1024)
MaxAttachmentBytes == 2097152
\* the most attachments one request may carry, handlers.go:207
MaxAttachments == 2
\* length of uuid.New().String(), sender.go:122
UUIDLen == 36

NoValue == [Absent |-> TRUE]
NotReturned == "not returned"

----------------------------------------------------------------------------
(* Strings *)

\* strings.Contains(s, <<ch>>) for a one-character needle
ContainsChar(s, ch) == \E i \in 1..Len(s) : s[i] = ch

\* the characters strings.TrimSpace removes
IsSpace(ch) == ch \in {" ", "\t", "\n", "\r"}

RECURSIVE TrimLeft(_)
TrimLeft(s) == IF s # <<>> /\ IsSpace(Head(s)) THEN TrimLeft(Tail(s)) ELSE s

RECURSIVE TrimRight(_)
TrimRight(s) ==
    IF s # <<>> /\ IsSpace(s[Len(s)]) THEN TrimRight(SubSeq(s, 1, Len(s) - 1)) ELSE s

\* strings.TrimSpace
TrimSpace(s) == TrimRight(TrimLeft(s))

UpperOf == [a |-> "A", c |-> "C", d |-> "D", e |-> "E", f |-> "F", i |-> "I",
            k |-> "K", l |-> "L", o |-> "O", p |-> "P", r |-> "R", t |-> "T",
            w |-> "W", x |-> "X", y |-> "Y"]
LowerLetters == DOMAIN UpperOf
UpperLetters == {UpperOf[ch] : ch \in LowerLetters}

LowerChar(ch) ==
    IF ch \in UpperLetters THEN CHOOSE l \in LowerLetters : UpperOf[l] = ch ELSE ch
UpperChar(ch) == IF ch \in LowerLetters THEN UpperOf[ch] ELSE ch

\* strings.ToLower
ToLower(s) == [i \in 1..Len(s) |-> LowerChar(s[i])]

\* all strings over alphabet A of length at most n
StringsUpTo(A, n) == UNION {[1..k -> A] : k \in 0..n}

----------------------------------------------------------------------------
(* Configuration *)

\* (c *Config) IsAPIKeyAuthEnabled
IsAPIKeyAuthEnabled(c) == TrimSpace(c.APIKey) # <<>>

\* (c *Config) GetDisplayEmail
GetDisplayEmail(c) ==
    IF TrimSpace(c.SenderEmailDisplay) # <<>> THEN c.SenderEmailDisplay ELSE c.SenderEmail

----------------------------------------------------------------------------
(* Validation *)

ErrRecipientLen(c) == <<"email address must be less than %d characters", c.MaxLenRecipientEmail>>
ErrSubjectLen(c) == <<"subject must be less than %d characters", c.MaxLenSubject>>
ErrBodyLen(c) == <<"body content must be less than %d characters", c.MaxLenBody>>
ErrBodyType == <<"body type must be either 'plain' or 'html'">>
ErrEmailFormat == <<"invalid email address format">>
Nil == <<>>

PLAIN == <<"p", "l", "a", "i", "n">>
HTML == <<"h", "t", "m", "l">>

\* a plausible slip: the length checks reject a value of exactly the maximum length
validateEmailRequest_Strict(req, c) ==
    IF Len(req.RecipientEmail) >= c.MaxLenRecipientEmail THEN ErrRecipientLen(c)
    ELSE IF Len(req.Subject) >= c.MaxLenSubject THEN ErrSubjectLen(c)
    ELSE IF Len(req.Body) >= c.MaxLenBody THEN ErrBodyLen(c)
    ELSE IF req.BodyType # PLAIN /\ req.BodyType # HTML THEN ErrBodyType
    ELSE IF ~ContainsChar(req.RecipientEmail, "@") THEN ErrEmailFormat
    ELSE Nil

\* (s *Server) validateEmailRequest
validateEmailRequest(req, c) ==
    IF Len(req.RecipientEmail) > c.MaxLenRecipientEmail THEN ErrRecipientLen(c)
    ELSE IF Len(req.Subject) > c.MaxLenSubject THEN ErrSubjectLen(c)
    ELSE IF Len(req.Body) > c.MaxLenBody THEN ErrBodyLen(c)
    ELSE IF req.BodyType # PLAIN /\ req.BodyType # HTML THEN ErrBodyType
    ELSE IF ~ContainsChar(req.RecipientEmail, "@") THEN ErrEmailFormat
    ELSE Nil

----------------------------------------------------------------------------
(* HTTP requests as they reach the router *)

\* textproto.CanonicalMIMEHeaderKey: net/http stores and looks up header names
\* with the first letter and every letter after a hyphen in upper case
CanonicalMIMEHeaderKey(s) ==
    [i \in 1..Len(s) |->
        IF i = 1 \/ s[i - 1] = "-" THEN UpperChar(s[i]) ELSE LowerChar(s[i])]

RECURSIVE ValuesOf(_, _)
ValuesOf(wire, key) ==
    IF wire = <<>> THEN <<>>
    ELSE IF CanonicalMIMEHeaderKey(Head(wire)[1]) = key
         THEN <<Head(wire)[2]>> \o ValuesOf(Tail(wire), key)
         ELSE ValuesOf(Tail(wire), key)

\* c.Request.Header: the header lines of the request, keyed by canonical name,
\* each with its values in arrival order
RequestHeader(wire) ==
    [key \in {CanonicalMIMEHeaderKey(wire[i][1]) : i \in 1..Len(wire)} |->
        ValuesOf(wire, key)]

\* c.GetHeader(name)
GetHeader(h, name) ==
    LET key == CanonicalMIMEHeaderKey(name)
    IN IF key \in DOMAIN h /\ h[key] # <<>> THEN h[key][1] ELSE <<>>

XAPIKey == <<"X", "-", "A", "P", "I", "-", "K", "e", "y">>
XRealIP == <<"X", "-", "R", "e", "a", "l", "-", "I", "P">>
XForwardedFor == <<"X", "-", "F", "o", "r", "w", "a", "r", "d", "e", "d", "-", "F", "o", "r">>
LowerXAPIKey == <<"x", "-", "a", "p", "i", "-", "k", "e", "y">>

\* the text of s before its first ",", as strings.Split(s, ",")[0]
RECURSIVE BeforeComma(_)
BeforeComma(s) ==
    IF s = <<>> \/ Head(s) = "," THEN <<>> ELSE <<Head(s)>> \o BeforeComma(Tail(s))

\* getClientIP
getClientIP(h, remoteAddr) ==
    IF GetHeader(h, XRealIP) # <<>> THEN GetHeader(h, XRealIP)
    ELSE IF GetHeader(h, XForwardedFor) # <<>>
         THEN TrimSpace(BeforeComma(GetHeader(h, XForwardedFor)))
         ELSE remoteAddr

\* a plausible slip: the secret header is matched by its exact lower-case name
getHeaders_ExactName(h) ==
    [key \in {k \in DOMAIN h : Len(h[k]) > 0 /\ k # LowerXAPIKey} |-> h[key][1]]

\* getHeaders
getHeaders(h) ==
    [key \in {k \in DOMAIN h : Len(h[k]) > 0 /\ ToLower(k) # LowerXAPIKey} |-> h[key][1]]

\* getFormValue
getFormValue(values, key) ==
    IF key \in DOMAIN values /\ Len(values[key]) > 0 THEN values[key][1] ELSE <<>>

----------------------------------------------------------------------------
(* The configurations explored *)

\* one loaded smtp_config; WithAttachments tells which of the two source
\* variants is deployed (with or without the MinIO attachment path)
BaseConfig ==
    [APIKey |-> <<>>,
     UsePassword |-> FALSE,
     MaxLenRecipientEmail |-> CfgMaxLenRecipientEmail,
     MaxLenSubject |-> CfgMaxLenSubject,
     MaxLenBody |-> CfgMaxLenBody,
     SenderEmail |-> <<"m", "@", "x">>,
     SenderEmailDisplay |-> <<>>,
     SenderDomain |-> <<"x">>,
     WithAttachments |-> FALSE]

Configs ==
    {[BaseConfig EXCEPT !.APIKey = <<"k">>, !.UsePassword = TRUE,
                        !.SenderEmailDisplay = <<"M">>],
     [BaseConfig EXCEPT !.APIKey = <<" ", " ">>, !.WithAttachments = TRUE,
                        !.UsePassword = TRUE, !.SenderEmailDisplay = <<"M">>],
     [BaseConfig EXCEPT !.APIKey = <<"k">>, !.WithAttachments = TRUE,
                        !.SenderEmailDisplay = <<" ">>],
     BaseConfig}

----------------------------------------------------------------------------
(* Request bodies *)

\* the "email" rule of binding:"required,email" on the model's alphabet: one "@",
\* a non-empty local part, and a domain of at least two non-empty labels
EmailTag(s) ==
    \E at \in 1..Len(s) :
        /\ s[at] = "@"
        /\ \A i \in 1..Len(s) : s[i] = "@" => i = at
        /\ at > 1 /\ s[1] # "." /\ s[at - 1] # "."
        /\ \E dot \in (at + 2)..(Len(s) - 1) : s[dot] = "."
        /\ \A i \in (at + 1)..Len(s) :
              s[i] = "." => i > at + 1 /\ i < Len(s) /\ s[i + 1] # "."

\* the value of a JSON member, the zero value when the member is absent
JSONField(fields, key) == IF key \in DOMAIN fields THEN fields[key][1] ELSE <<>>

JSONTrue == <<"t", "r", "u", "e">>
JSONFalse == <<"f", "a", "l", "s", "e">>

\* c.ShouldBindJSON(&req): decode, then check the binding tags of EmailRequest
BindErrors(body) ==
    IF body.Malformed \/ JSONField(body.Fields, "debug") \notin {<<>>, JSONTrue, JSONFalse}
    THEN {"invalid JSON"}
    ELSE {e \in {"RecipientEmail required", "RecipientEmail email",
                 "Subject required", "Body required"} :
            \/ e = "RecipientEmail required" /\ JSONField(body.Fields, "recipient_email") = <<>>
            \/ e = "RecipientEmail email"
                 /\ JSONField(body.Fields, "recipient_email") # <<>>
                 /\ ~EmailTag(JSONField(body.Fields, "recipient_email"))
            \/ e = "Subject required" /\ JSONField(body.Fields, "subject") = <<>>
            \/ e = "Body required" /\ JSONField(body.Fields, "body") = <<>>}

\* strconv.ParseBool: the accepted spellings of true (every other text gives false)
ParseBool(s) ==
    s \in {<<"1">>, <<"t">>, <<"T">>, <<"T", "R", "U", "E">>, <<"t", "r", "u", "e">>,
           <<"T", "r", "u", "e">>}

\* the EmailRequest sendEmail binds from a JSON body
JSONRequest(body) ==
    [RecipientEmail |-> JSONField(body.Fields, "recipient_email"),
     Subject |-> JSONField(body.Fields, "subject"),
     Body |-> JSONField(body.Fields, "body"),
     BodyType |-> JSONField(body.Fields, "body_type"),
     Debug |-> JSONField(body.Fields, "debug") = JSONTrue]

\* the EmailRequest sendEmailWithAttachments builds from the form values
FormRequest(body) ==
    [RecipientEmail |-> getFormValue(body.Fields, "recipient_email"),
     Subject |-> getFormValue(body.Fields, "subject"),
     Body |-> getFormValue(body.Fields, "body"),
     BodyType |-> IF getFormValue(body.Fields, "body_type") = <<>> THEN PLAIN
                  ELSE getFormValue(body.Fields, "body_type"),
     Debug |-> IF getFormValue(body.Fields, "debug") # <<>>
               THEN ParseBool(getFormValue(body.Fields, "debug")) ELSE FALSE]

\* getOpenAPISpec, schema EmailRequest: the members a caller must send, and
\* the value the schema declares for a body_type that is left out
OpenAPIRequired == {"recipient_email", "subject", "body"}
OpenAPIBodyTypeDefault == PLAIN

----------------------------------------------------------------------------
(* The requests submitted *)

GoodRecipient == <<"a", "@", "b", ".", "c">>
LongRecipient == [i \in 1..(CfgMaxLenRecipientEmail + OverLimit) |-> "a"]
LongSubject == [i \in 1..(CfgMaxLenSubject + OverLimit) |-> "s"]

Fields(recipient, subject, body, bodyType, debug) ==
    [recipient_email |-> <<recipient>>, subject |-> <<subject>>, body |-> <<body>>,
     body_type |-> <<bodyType>>, debug |-> <<debug>>]

GoodPlain == [Malformed |-> FALSE,
              Fields |-> Fields(GoodRecipient, <<"s">>, <<"b">>, PLAIN, JSONFalse)]
GoodHtmlDebug == [Malformed |-> FALSE,
                  Fields |-> Fields(GoodRecipient, <<"s">>, <<"b">>, HTML, JSONTrue)]
\* recipient and subject too long, and the body type unknown
BadMany == [Malformed |-> FALSE,
            Fields |-> Fields(LongRecipient, LongSubject, <<"b">>, <<"r", "t", "f">>, JSONFalse)]
\* a recipient without "@"
BadNoAt == [Malformed |-> FALSE,
            Fields |-> Fields(<<"a", "b">>, <<"s">>, <<"b">>, PLAIN, JSONFalse)]
\* body_type and debug left out; the recipient has an "@" but no dotted domain
NoBodyType == [Malformed |-> FALSE,
               Fields |-> [recipient_email |-> <<(<<"a", "@", "b">>)>>,
                           subject |-> <<(<<"s">>)>>, body |-> <<(<<"b">>)>>]]
\* body_type left out of an otherwise good request
GoodNoBodyType == [Malformed |-> FALSE,
                   Fields |-> [recipient_email |-> <<GoodRecipient>>,
                               subject |-> <<(<<"s">>)>>, body |-> <<(<<"b">>)>>]]
\* an otherwise good request whose body_type is html in capitals
BadBodyType == [Malformed |-> FALSE,
                Fields |-> Fields(GoodRecipient, <<"s">>, <<"b">>, <<"H", "T", "M", "L">>,
                                  JSONFalse)]
Unparsable == [Malformed |-> TRUE, Fields |-> [k \in {} |-> <<>>]]

HdrNone == <<>>
HdrGood == << <<XAPIKey, <<"k">> >>, << <<"A", "c", "c", "e", "p", "t">>, <<"j">> >>,
              << <<"a", "c", "c", "e", "p", "t">>, <<"t">> >> >>
HdrLower == << <<LowerXAPIKey, <<"k">> >>, <<XRealIP, <<"9">> >> >>
HdrBad == << <<CanonicalMIMEHeaderKey(XAPIKey), <<"x">> >> >>

SmallFile(name) == [Filename |-> name, Size |-> MaxAttachmentBytes]
BigFile(name) == [Filename |-> name, Size |-> MaxAttachmentBytes + 1]
F1 == SmallFile(<<"f", ".", "t", "x", "t">>)
F2 == SmallFile(<<"a", "_", "b">>)

Request(route, wire, body, uploads) ==
    [Route |-> route, Wire |-> wire, Body |-> body, Files |-> uploads]

Requests ==
    {Request("health", HdrNone, Unparsable, <<>>)}
    \cup {Request("send", HdrGood, b, <<>>) :
            b \in {GoodPlain, BadMany, BadNoAt, GoodNoBodyType, BadBodyType, Unparsable}}
    \cup {Request("send", HdrLower, GoodHtmlDebug, <<>>),
          Request("send", HdrNone, GoodPlain, <<>>),
          Request("send", HdrBad, GoodHtmlDebug, <<>>)}
    \cup {Request("attach", HdrGood, b, <<>>) :
            b \in {GoodPlain, BadMany, BadNoAt, NoBodyType, BadBodyType, Unparsable}}
    \cup {Request("attach", HdrGood, GoodHtmlDebug, <<F1>>),
          Request("attach", HdrNone, GoodPlain, <<F1, F2>>),
          Request("attach", HdrGood, GoodPlain, <<F1, F2, F1>>),
          Request("attach", HdrGood, GoodPlain, <<F1, BigFile(<<"g">>)>>),
          Request("attach", HdrBad, GoodPlain, <<F1>>)}

RemoteAddr == <<"7">>

----------------------------------------------------------------------------
(* Identifiers *)

HexDigits == <<"0", "1", "2", "3", "4", "5", "6", "7", "8", "9", "a", "b", "c", "d", "e", "f">>

\* uuid.New().String() of the n-th UUID handed out (n counted from 0): 36
\* characters, hyphens at 9, 14, 19 and 24; the library contract is that no two
\* calls return the same value
UUIDString(n) ==
    [i \in 1..UUIDLen |->
        IF i \in {9, 14, 19, 24} THEN "-"
        ELSE IF i = UUIDLen THEN HexDigits[(n % 16) + 1]
        ELSE IF i = UUIDLen - 1 THEN HexDigits[((n \div 16) % 16) + 1]
        ELSE "0"]

\* a plausible slip: an identifier derived from something that repeats
NewUUID_Repeating(n) == UUIDString(0)

\* uuid.New().String()
NewUUID(n) == UUIDString(n)

----------------------------------------------------------------------------
(* Responses *)

Response(status, body) == [Status |-> status, Body |-> body]

ErrorBody(e) == [error |-> e]

AcceptedText == "Email is being sent in the background"

\* the body of the 200 answer of both mail-send handlers
AcceptedBody(emailID) == [message |-> AcceptedText, email_id |-> emailID]

\* getHealth
HealthBody(h) ==
    [status |-> "healthy",
     timestamp |-> GetHeader(h, <<"X", "-", "R", "e", "q", "u", "e", "s", "t", "-", "T", "i", "m", "e">>),
     version |-> "1.0.0"]

----------------------------------------------------------------------------
(* Routing *)

\* the route of sendEmailWithAttachments, registered in the /v1/mail group of the
\* deployment that carries the attachment path
AttachmentsRouteRegistered(c) == c.WithAttachments

\* a plausible slip: the health route is registered inside the guarded group
MailRoutes_WithHealth(c) ==
    IF AttachmentsRouteRegistered(c) THEN {"send", "attach", "health"} ELSE {"send", "health"}

\* setupRoutes: the routes of the /v1/mail group
MailRoutes(c) == IF AttachmentsRouteRegistered(c) THEN {"send", "attach"} ELSE {"send"}

\* a plausible slip: the middleware lets a request without the header through
apiKeyAuthMiddleware_AbsentPasses(h, c) ==
    GetHeader(h, XAPIKey) = <<>> \/ GetHeader(h, XAPIKey) = c.APIKey

\* apiKeyAuthMiddleware: TRUE when the request is let through to c.Next()
apiKeyAuthMiddleware(h, c) == GetHeader(h, XAPIKey) = c.APIKey

\* setupRoutes: the /v1/mail group lets a request through to its handler when
\* the middleware is not installed or lets it through
MailGroupPasses(h, c) == IsAPIKeyAuthEnabled(c) => apiKeyAuthMiddleware(h, c)

----------------------------------------------------------------------------
(* The handlers, as functions of the request and of the UUIDs handed out so far *)

\* what a handler leaves behind: the response it will write, the job it hands to
\* its goroutine (NoValue when it starts none), the bucket, and the UUID count
Outcome(response, j, st, n) == [Response |-> response, Job |-> j, Store |-> st, UUIDs |-> n]

Job(req, emailID, clientIP, headers, attachmentNames) ==
    [Req |-> req, EmailID |-> emailID, ClientIP |-> clientIP, Headers |-> headers,
     AttachmentNames |-> attachmentNames]

\* a plausible slip: the goroutine is started before the request is validated
sendEmail_DispatchFirst(t, c, st, n) ==
    LET h == RequestHeader(t.Wire)
        req == JSONRequest(t.Body)
        j == Job(req, NewUUID(n), getClientIP(h, RemoteAddr), getHeaders(h), <<>>)
    IN IF BindErrors(t.Body) # {}
       THEN Outcome(Response(400, ErrorBody(BindErrors(t.Body))), NoValue, st, n)
       ELSE IF validateEmailRequest(req, c) # Nil
       THEN Outcome(Response(400, ErrorBody(validateEmailRequest(req, c))), j, st, n + 1)
       ELSE Outcome(Response(200, AcceptedBody(NewUUID(n))), j, st, n + 1)

\* (s *Server) sendEmail
sendEmail(t, c, st, n) ==
    LET h == RequestHeader(t.Wire)
        req == JSONRequest(t.Body)
    IN IF BindErrors(t.Body) # {}
       THEN Outcome(Response(400, ErrorBody(BindErrors(t.Body))), NoValue, st, n)
       ELSE IF validateEmailRequest(req, c) # Nil
       THEN Outcome(Response(400, ErrorBody(validateEmailRequest(req, c))), NoValue, st, n)
       ELSE Outcome(Response(200, AcceptedBody(NewUUID(n))),
                    Job(req, NewUUID(n), getClientIP(h, RemoteAddr), getHeaders(h), <<>>),
                    st, n + 1)

\* what can go wrong in the environment while one file is staged
NoFault == [At |-> 0, Kind |-> "none"]
StagingFaults(uploads) ==
    {NoFault} \cup {[At |-> k, Kind |-> kind] : k \in 1..Len(uploads), kind \in {"open", "upload"}}

\* fmt.Sprintf("%s_%s", uuid.New().String(), file.Filename)
ObjectName(uuid, filename) == uuid \o <<"_">> \o filename

\* a plausible slip: a file that cannot be opened or uploaded is skipped and
\* the loop goes on with the next
RECURSIVE StageFrom_SkipFailed(_, _, _, _, _, _)
StageFrom_SkipFailed(uploads, i, fault, n, names, st) ==
    IF i > Len(uploads)
    THEN [Status |-> 200, Error |-> Nil, Names |-> names, Store |-> st, UUIDs |-> n]
    ELSE IF uploads[i].Size > MaxAttachmentBytes
    THEN [Status |-> 400, Error |-> "Attachments must be smaller than 2MB",
          Names |-> names, Store |-> st, UUIDs |-> n]
    ELSE IF fault.At = i
    THEN StageFrom_SkipFailed(uploads, i + 1, fault, n, names, st)
    ELSE StageFrom_SkipFailed(uploads, i + 1, fault, n + 1,
                              Append(names, ObjectName(NewUUID(n), uploads[i].Filename)),
                              st \cup {ObjectName(NewUUID(n), uploads[i].Filename)})

\* a plausible slip: when a file is turned down, the objects stored for the
\* files before it are removed again
RECURSIVE StageFrom_CleanUp(_, _, _, _, _, _)
StageFrom_CleanUp(uploads, i, fault, n, names, st) ==
    IF i > Len(uploads)
    THEN [Status |-> 200, Error |-> Nil, Names |-> names, Store |-> st, UUIDs |-> n]
    ELSE IF uploads[i].Size > MaxAttachmentBytes
    THEN [Status |-> 400, Error |-> "Attachments must be smaller than 2MB",
          Names |-> names, Store |-> st \ {names[k] : k \in 1..Len(names)}, UUIDs |-> n]
    ELSE IF fault.At = i /\ fault.Kind = "open"
    THEN [Status |-> 500, Error |-> "Failed to read attachment",
          Names |-> names, Store |-> st \ {names[k] : k \in 1..Len(names)}, UUIDs |-> n]
    ELSE IF fault.At = i /\ fault.Kind = "upload"
    THEN [Status |-> 500, Error |-> "Failed to upload attachment",
          Names |-> names, Store |-> st \ {names[k] : k \in 1..Len(names)},
          UUIDs |-> n + 1]
    ELSE StageFrom_CleanUp(uploads, i + 1, fault, n + 1,
                           Append(names, ObjectName(NewUUID(n), uploads[i].Filename)),
                           st \cup {ObjectName(NewUUID(n), uploads[i].Filename)})

\* the "Process each attachment" loop of sendEmailWithAttachments from file i on
RECURSIVE StageFrom(_, _, _, _, _, _)
StageFrom(uploads, i, fault, n, names, st) ==
    IF i > Len(uploads)
    THEN [Status |-> 200, Error |-> Nil, Names |-> names, Store |-> st, UUIDs |-> n]
    ELSE IF uploads[i].Size > MaxAttachmentBytes
    THEN [Status |-> 400, Error |-> "Attachments must be smaller than 2MB",
          Names |-> names, Store |-> st, UUIDs |-> n]
    ELSE IF fault.At = i /\ fault.Kind = "open"
    THEN [Status |-> 500, Error |-> "Failed to read attachment",
          Names |-> names, Store |-> st, UUIDs |-> n]
    ELSE IF fault.At = i /\ fault.Kind = "upload"
    THEN [Status |-> 500, Error |-> "Failed to upload attachment",
          Names |-> names, Store |-> st, UUIDs |-> n + 1]
    ELSE StageFrom(uploads, i + 1, fault, n + 1,
                   Append(names, ObjectName(NewUUID(n), uploads[i].Filename)),
                   st \cup {ObjectName(NewUUID(n), uploads[i].Filename)})

\* a plausible slip: the handler hands the files over unstaged and the objects
\* are put into the store later, by the goroutine
sendEmailWithAttachments_StageLater(t, fault, c, st, n) ==
    LET h == RequestHeader(t.Wire)
        req == FormRequest(t.Body)
        staged == StageFrom(t.Files, 1, fault, n, <<>>, st)
    IN IF t.Body.Malformed
       THEN Outcome(Response(400, ErrorBody("Failed to parse multipart form")), NoValue, st, n)
       ELSE IF validateEmailRequest(req, c) # Nil
       THEN Outcome(Response(400, ErrorBody(validateEmailRequest(req, c))), NoValue, st, n)
       ELSE IF Len(t.Files) > MaxAttachments
       THEN Outcome(Response(400, ErrorBody("You can only upload up to 2 attachments")),
                    NoValue, st, n)
       ELSE IF staged.Status # 200
       THEN Outcome(Response(staged.Status, ErrorBody(staged.Error)), NoValue,
                    st, staged.UUIDs)
       ELSE Outcome(Response(200, AcceptedBody(NewUUID(staged.UUIDs))),
                    Job(req, NewUUID(staged.UUIDs), getClientIP(h, RemoteAddr),
                        getHeaders(h), staged.Names),
                    st, staged.UUIDs + 1)

\* a plausible slip: the number of files is checked after the staging loop
sendEmailWithAttachments_CountLast(t, fault, c, st, n) ==
    LET h == RequestHeader(t.Wire)
        req == FormRequest(t.Body)
        staged == StageFrom(t.Files, 1, fault, n, <<>>, st)
    IN IF t.Body.Malformed
       THEN Outcome(Response(400, ErrorBody("Failed to parse multipart form")), NoValue, st, n)
       ELSE IF validateEmailRequest(req, c) # Nil
       THEN Outcome(Response(400, ErrorBody(validateEmailRequest(req, c))), NoValue, st, n)
       ELSE IF staged.Status # 200
       THEN Outcome(Response(staged.Status, ErrorBody(staged.Error)), NoValue,
                    staged.Store, staged.UUIDs)
       ELSE IF Len(t.Files) > MaxAttachments
       THEN Outcome(Response(400, ErrorBody("You can only upload up to 2 attachments")),
                    NoValue, staged.Store, staged.UUIDs)
       ELSE Outcome(Response(200, AcceptedBody(NewUUID(staged.UUIDs))),
                    Job(req, NewUUID(staged.UUIDs), getClientIP(h, RemoteAddr),
                        getHeaders(h), staged.Names),
                    staged.Store, staged.UUIDs + 1)

\* (s *Server) sendEmailWithAttachments
sendEmailWithAttachments(t, fault, c, st, n) ==
    LET h == RequestHeader(t.Wire)
        req == FormRequest(t.Body)
        staged == StageFrom(t.Files, 1, fault, n, <<>>, st)
    IN IF t.Body.Malformed
       THEN Outcome(Response(400, ErrorBody("Failed to parse multipart form")), NoValue, st, n)
       ELSE IF validateEmailRequest(req, c) # Nil
       THEN Outcome(Response(400, ErrorBody(validateEmailRequest(req, c))), NoValue, st, n)
       ELSE IF Len(t.Files) > MaxAttachments
       THEN Outcome(Response(400, ErrorBody("You can only upload up to 2 attachments")),
                    NoValue, st, n)
       ELSE IF staged.Status # 200
       THEN Outcome(Response(staged.Status, ErrorBody(staged.Error)), NoValue,
                    staged.Store, staged.UUIDs)
       ELSE Outcome(Response(200, AcceptedBody(NewUUID(staged.UUIDs))),
                    Job(req, NewUUID(staged.UUIDs), getClientIP(h, RemoteAddr),
                        getHeaders(h), staged.Names),
                    staged.Store, staged.UUIDs + 1)

----------------------------------------------------------------------------
(* The sender *)

\* the From header of (s *Sender) SendEmail: m.SetAddressHeader gives an address
\* with a display name, m.SetHeader a bare value. The deployment without the
\* attachment path keeps the envelope sender equal to the SMTP user.
FromHeader(c) ==
    IF c.WithAttachments THEN [Address |-> GetDisplayEmail(c), Name |-> <<>>]
    ELSE IF c.UsePassword /\ GetDisplayEmail(c) # c.SenderEmail
    THEN [Address |-> c.SenderEmail, Name |-> GetDisplayEmail(c)]
    ELSE IF c.UsePassword THEN [Address |-> c.SenderEmail, Name |-> <<>>]
    ELSE [Address |-> GetDisplayEmail(c), Name |-> <<>>]

\* a plausible slip: the Message-ID is built without the request's identifier
MessageID_NoID(emailID, c) == <<"<">> \o <<"@">> \o c.SenderDomain \o <<">">>

\* fmt.Sprintf("<%s@%s>", emailID, s.config.SenderDomain)
MessageID(emailID, c) == <<"<">> \o emailID \o <<"@">> \o c.SenderDomain \o <<">">>

\* a plausible slip: the cut is one character early and keeps the separator
AttachmentFilename_OffByOne(objectName) ==
    IF Len(objectName) > UUIDLen /\ objectName[UUIDLen + 1] = "_"
    THEN SubSeq(objectName, UUIDLen + 1, Len(objectName))
    ELSE objectName

\* the file name addAttachment recovers from an object name (Go indexes from 0)
AttachmentFilename(objectName) ==
    IF Len(objectName) > UUIDLen /\ objectName[UUIDLen + 1] = "_"
    THEN SubSeq(objectName, UUIDLen + 2, Len(objectName))
    ELSE objectName

\* the attachments SendEmail adds: one per non-empty object name, in order
RECURSIVE Attachments(_)
Attachments(names) ==
    IF names = <<>> THEN <<>>
    ELSE IF Head(names) = <<>> THEN Attachments(Tail(names))
    ELSE <<AttachmentFilename(Head(names))>> \o Attachments(Tail(names))

\* a plausible slip: every body is set as text/plain
Compose_AlwaysPlain(j, c) ==
    [From |-> FromHeader(c),
     To |-> j.Req.RecipientEmail,
     Subject |-> j.Req.Subject,
     MessageID |-> MessageID(j.EmailID, c),
     ContentType |-> "text/plain",
     Body |-> j.Req.Body,
     Attachments |-> IF c.WithAttachments THEN Attachments(j.AttachmentNames) ELSE <<>>]

\* the gomail message SendEmail builds before it calls sendMessage
Compose(j, c) ==
    [From |-> FromHeader(c),
     To |-> j.Req.RecipientEmail,
     Subject |-> j.Req.Subject,
     MessageID |-> MessageID(j.EmailID, c),
     ContentType |-> IF j.Req.BodyType = HTML THEN "text/html" ELSE "text/plain",
     Body |-> j.Req.Body,
     Attachments |-> IF c.WithAttachments THEN Attachments(j.AttachmentNames) ELSE <<>>]

\* messageLength of SendEmail
MessageLength(req) == Len(req.Subject) + Len(req.Body) + Len(req.RecipientEmail)

\* the errors the SMTP transport and the object store return in the model
TransportErrors == {"dial tcp: connection refused", "535 authentication failed"}
FetchError == "failed to read file content"

\* the outcomes of writing one file under data/: written whole, not written
\* (the directory or the file could not be created), or cut short
WriteOutcomes == {"written", "failed", "truncated"}
Truncated == [Truncated |-> TRUE]

StatusDir(status) == IF status = "success" THEN "success" ELSE "failure"

Json == <<".", "j", "s", "o", "n">>
EmailTxt == <<"_", "e", "m", "a", "i", "l", ".", "t", "x", "t">>

\* the time zones the process may run in: UTC and zones ahead of it
Zones == 0..MaxZoneOffset

\* time.Now().Format("2006-01-02"): time.Now() is a time in time.Local, and Format
\* prints the calendar date the instant falls on in that zone
DateOf(now) == (now + zone) \div TicksPerDay

\* a plausible slip: the record file is not named after the identifier
ResultPath_Unkeyed(date, status, emailID) == <<"data", date, StatusDir(status), Json>>

\* filepath.Join("data", dateStr, statusDir, emailID + ".json")
ResultPath(date, status, emailID) == <<"data", date, StatusDir(status), emailID \o Json>>

\* filepath.Join("data", dateStr, "debug", emailID + "_email.txt")
DebugPath(date, emailID) == <<"data", date, "debug", emailID \o EmailTxt>>

\* a plausible slip: a file that exists is left as it is
WriteFile_KeepExisting(fs, path, content, outcome) ==
    IF outcome = "failed" \/ path \in DOMAIN fs THEN fs
    ELSE [p \in DOMAIN fs \cup {path} |->
            IF p # path THEN fs[p]
            ELSE IF outcome = "truncated" THEN Truncated ELSE content]

\* os.WriteFile / os.Create + WriteTo on the data/ tree
WriteFile(fs, path, content, outcome) ==
    IF outcome = "failed" THEN fs
    ELSE [p \in DOMAIN fs \cup {path} |->
            IF p # path THEN fs[p]
            ELSE IF outcome = "truncated" THEN Truncated ELSE content]

\* a plausible slip: every outcome is filed as a success
saveEmailResult_AlwaysSuccess(fs, now, j, status, detail, messageLength, outcome) ==
    WriteFile(fs, ResultPath(DateOf(now), "success", j.EmailID),
              [EmailID |-> j.EmailID, Status |-> "success", Detail |-> detail,
               Timestamp |-> now, ClientIP |-> j.ClientIP, Headers |-> j.Headers,
               MessageLength |-> messageLength],
              outcome)

\* (s *Sender) saveEmailResult
saveEmailResult(fs, now, j, status, detail, messageLength, outcome) ==
    WriteFile(fs, ResultPath(DateOf(now), status, j.EmailID),
              [EmailID |-> j.EmailID, Status |-> status, Detail |-> detail,
               Timestamp |-> now, ClientIP |-> j.ClientIP, Headers |-> j.Headers,
               MessageLength |-> messageLength],
              outcome)

\* (s *Sender) saveDebugEmail
saveDebugEmail(fs, now, emailID, m, outcome) ==
    WriteFile(fs, DebugPath(DateOf(now), emailID), [Raw |-> m], outcome)

----------------------------------------------------------------------------
(* The server *)

Slots == 1..MaxRequests

Init ==
    /\ cfg \in Configs
    /\ alive = TRUE
    /\ nextUUID = 0
    /\ hpc = [r \in Slots |-> "idle"]
    /\ resp = [r \in Slots |-> NoValue]
    /\ job = [r \in Slots |-> NoValue]
    /\ gpc = [r \in Slots |-> "none"]
    /\ msg = [r \in Slots |-> NoValue]
    /\ calls = [r \in Slots |-> <<>>]
    /\ files = [p \in {} |-> NoValue]
    /\ store = {}
    /\ inbox = [r \in Slots |-> NoValue]
    /\ writes = [r \in Slots |-> <<>>]
    /\ ret = [r \in Slots |-> NotReturned]
    /\ clock = 0
    /\ zone \in Zones
    /\ fetches = [r \in Slots |-> <<>>]
    /\ vreq = NoValue
    /\ vout = NoValue

\* requests are numbered in their order of arrival
Arrives(r) ==
    /\ alive
    /\ hpc[r] = "idle"
    /\ \A q \in Slots : q < r => hpc[q] # "idle"

\* a handler that answers and starts nothing
Answer(r, t, response) ==
    /\ inbox' = [inbox EXCEPT ![r] = t]
    /\ hpc' = [hpc EXCEPT ![r] = "done"]
    /\ resp' = [resp EXCEPT ![r] = response]
    /\ UNCHANGED <<cfg, alive, nextUUID, job, gpc, msg, calls, files, store, writes, ret,
                   clock, vreq, vout, zone, fetches>>

\* a mail-send handler has run up to its last statement: when it returned on an
\* error it has answered; when it reached "go func()" the goroutine exists and
\* the 200 of its closing c.JSON is still to be written
Handled(r, t, out) ==
    /\ inbox' = [inbox EXCEPT ![r] = t]
    /\ nextUUID' = out.UUIDs
    /\ store' = out.Store
    /\ IF out.Job = NoValue
       THEN UNCHANGED <<job, gpc>>
       ELSE /\ job' = [job EXCEPT ![r] = out.Job]
            /\ gpc' = [gpc EXCEPT ![r] = "spawned"]
    /\ IF out.Response.Status = 200
       THEN /\ hpc' = [hpc EXCEPT ![r] = "respond"]
            /\ UNCHANGED resp
       ELSE /\ hpc' = [hpc EXCEPT ![r] = "done"]
            /\ resp' = [resp EXCEPT ![r] = out.Response]
    /\ UNCHANGED <<cfg, alive, msg, calls, files, writes, ret, clock, vreq, vout, zone,
                   fetches>>

\* GET /health
GetHealth(r, t) ==
    /\ Arrives(r)
    /\ t.Route = "health"
    /\ Answer(r, t, Response(200, HealthBody(RequestHeader(t.Wire))))

\* a path the router has no route for
NotFound(r, t) ==
    /\ Arrives(r)
    /\ t.Route = "attach"
    /\ ~AttachmentsRouteRegistered(cfg)
    /\ Answer(r, t, Response(404, ErrorBody("404 page not found")))

\* the API-key middleware of the /v1/mail group answers 403 and aborts
Forbidden(r, t) ==
    /\ Arrives(r)
    /\ t.Route \in MailRoutes(cfg)
    /\ ~MailGroupPasses(RequestHeader(t.Wire), cfg)
    /\ Answer(r, t, Response(403, ErrorBody("Could not validate credentials")))

\* POST /v1/mail/send
SendEmailJSON(r, t) ==
    /\ Arrives(r)
    /\ t.Route = "send"
    /\ MailGroupPasses(RequestHeader(t.Wire), cfg)
    /\ Handled(r, t, sendEmail(t, cfg, store, nextUUID))

\* POST /v1/mail/send-with-attachments
SendEmailMultipart(r, t, fault) ==
    /\ Arrives(r)
    /\ t.Route = "attach"
    /\ AttachmentsRouteRegistered(cfg)
    /\ MailGroupPasses(RequestHeader(t.Wire), cfg)
    /\ Handled(r, t, sendEmailWithAttachments(t, fault, cfg, store, nextUUID))

\* a plausible slip: the handler waits for SendEmail to return and reports its
\* result to the caller
Respond_AfterDispatch(r) ==
    /\ alive
    /\ hpc[r] = "respond"
    /\ gpc[r] = "done"
    /\ hpc' = [hpc EXCEPT ![r] = "done"]
    /\ resp' = [resp EXCEPT ![r] = Response(IF ret[r] = "nil" THEN 200 ELSE 500,
                                            AcceptedBody(job[r].EmailID))]
    /\ UNCHANGED <<cfg, alive, nextUUID, job, gpc, msg, calls, files, store, inbox, writes,
                   ret, clock, vreq, vout, zone, fetches>>

\* c.JSON(http.StatusOK, ...) after "go func()": the handler does not wait
Respond(r) ==
    /\ alive
    /\ hpc[r] = "respond"
    /\ hpc' = [hpc EXCEPT ![r] = "done"]
    /\ resp' = [resp EXCEPT ![r] = Response(200, AcceptedBody(job[r].EmailID))]
    /\ UNCHANGED <<cfg, alive, nextUUID, job, gpc, msg, calls, files, store, inbox, writes,
                   ret, clock, vreq, vout, zone, fetches>>

----------------------------------------------------------------------------
(* The background goroutine of one accepted request: s.emailSender.SendEmail *)

Running(r, at) == alive /\ gpc[r] = at

\* a plausible slip: the loop goes on after an attachment that failed
FetchedUpTo_All(names, k) ==
    [i \in 1..Len(names) |-> <<names[i], IF i = k THEN FetchError ELSE "ok">>]

\* the s.addAttachment calls of the "Add attachments" loop, each with the object
\* it asks the store for and how it ends, when the k-th fails (k = 0: none
\* fails): one call per name, in order, and none after the k-th
FetchedUpTo(names, k) ==
    [i \in 1..(IF k = 0 THEN Len(names) ELSE k) |->
        <<names[i], IF i = k THEN FetchError ELSE "ok">>]

\* SendEmail stops at the k-th attachment, which cannot be fetched or read:
\* it records the failure with message length 0 and returns the error
AttachmentFails(r, k, outcome) ==
    /\ Running(r, "spawned")
    /\ cfg.WithAttachments
    /\ k \in 1..Len(job[r].AttachmentNames)
    /\ job[r].AttachmentNames[k] # <<>>
    /\ files' = saveEmailResult(files, clock, job[r], "failure",
                                <<"Failed to add attachment: %v", FetchError>>, 0, outcome)
    /\ writes' = [writes EXCEPT ![r] = Append(@, <<"result", outcome>>)]
    /\ ret' = [ret EXCEPT ![r] = FetchError]
    /\ gpc' = [gpc EXCEPT ![r] = "done"]
    /\ fetches' = [fetches EXCEPT ![r] = FetchedUpTo(job[r].AttachmentNames, k)]
    /\ UNCHANGED <<cfg, alive, nextUUID, hpc, resp, job, msg, calls, store, inbox, clock,
                   vreq, vout, zone>>

\* SendEmail fetches every attachment, composes the message and calls
\* s.sendMessage(m)
StartDelivery(r) ==
    /\ Running(r, "spawned")
    /\ msg' = [msg EXCEPT ![r] = Compose(job[r], cfg)]
    /\ calls' = [calls EXCEPT ![r] = Append(@, "pending")]
    /\ gpc' = [gpc EXCEPT ![r] = "delivering"]
    /\ fetches' = [fetches EXCEPT ![r] =
                      IF cfg.WithAttachments
                      THEN FetchedUpTo(job[r].AttachmentNames, 0)
                      ELSE <<>>]
    /\ UNCHANGED <<cfg, alive, nextUUID, hpc, resp, job, files, store, inbox, writes, ret,
                   clock, vreq, vout, zone>>

\* where SendEmail goes after a transport error
AfterTransportError_Retry(r) == "spawned"
AfterTransportError(r) == "done"

\* d.DialAndSend(m) returns an error: the failure is recorded and returned
TransportFails(r, e, outcome) ==
    /\ Running(r, "delivering")
    /\ calls' = [calls EXCEPT ![r] = [@ EXCEPT ![Len(calls[r])] = e]]
    /\ files' = saveEmailResult(files, clock, job[r], "failure",
                                <<"Failed to send email: %v", e>>,
                                MessageLength(job[r].Req), outcome)
    /\ writes' = [writes EXCEPT ![r] = Append(@, <<"result", outcome>>)]
    /\ ret' = [ret EXCEPT ![r] = IF AfterTransportError(r) = "done" THEN e ELSE @]
    /\ gpc' = [gpc EXCEPT ![r] = AfterTransportError(r)]
    /\ UNCHANGED <<cfg, alive, nextUUID, hpc, resp, job, msg, store, inbox, clock, vreq, vout,
                   zone, fetches>>

\* a plausible slip: a success record that could not be written ends the
\* dispatch with an error, and the debug dump is skipped
TransportSucceeds_StopOnWriteError(r, outcome) ==
    /\ Running(r, "delivering")
    /\ calls' = [calls EXCEPT ![r] = [@ EXCEPT ![Len(calls[r])] = "ok"]]
    /\ files' = saveEmailResult(files, clock, job[r], "success",
                                <<"Email sent successfully">>,
                                MessageLength(job[r].Req), outcome)
    /\ IF outcome # "written"
       THEN gpc' = [gpc EXCEPT ![r] = "done"]
            /\ ret' = [ret EXCEPT ![r] = "failed to write result file"]
       ELSE IF job[r].Req.Debug
       THEN gpc' = [gpc EXCEPT ![r] = "debug"] /\ UNCHANGED ret
       ELSE gpc' = [gpc EXCEPT ![r] = "done"] /\ ret' = [ret EXCEPT ![r] = "nil"]
    /\ writes' = [writes EXCEPT ![r] = Append(@, <<"result", outcome>>)]
    /\ UNCHANGED <<cfg, alive, nextUUID, hpc, resp, job, msg, store, inbox, clock, vreq, vout,
                   zone, fetches>>

\* a plausible slip: the debug dump follows whether or not the request asked
TransportSucceeds_AlwaysDebug(r, outcome) ==
    /\ Running(r, "delivering")
    /\ calls' = [calls EXCEPT ![r] = [@ EXCEPT ![Len(calls[r])] = "ok"]]
    /\ files' = saveEmailResult(files, clock, job[r], "success",
                                <<"Email sent successfully">>,
                                MessageLength(job[r].Req), outcome)
    /\ gpc' = [gpc EXCEPT ![r] = "debug"]
    /\ writes' = [writes EXCEPT ![r] = Append(@, <<"result", outcome>>)]
    /\ UNCHANGED <<cfg, alive, nextUUID, hpc, resp, job, msg, store, inbox, ret, clock,
                   vreq, vout, zone, fetches>>

\* d.DialAndSend(m) returns nil: the success is recorded; the debug dump follows
\* when the request asked for it
TransportSucceeds(r, outcome) ==
    /\ Running(r, "delivering")
    /\ calls' = [calls EXCEPT ![r] = [@ EXCEPT ![Len(calls[r])] = "ok"]]
    /\ files' = saveEmailResult(files, clock, job[r], "success",
                                <<"Email sent successfully">>,
                                MessageLength(job[r].Req), outcome)
    /\ IF job[r].Req.Debug
       THEN gpc' = [gpc EXCEPT ![r] = "debug"] /\ UNCHANGED ret
       ELSE gpc' = [gpc EXCEPT ![r] = "done"] /\ ret' = [ret EXCEPT ![r] = "nil"]
    /\ writes' = [writes EXCEPT ![r] = Append(@, <<"result", outcome>>)]
    /\ UNCHANGED <<cfg, alive, nextUUID, hpc, resp, job, msg, store, inbox, clock, vreq, vout,
                   zone, fetches>>

\* a plausible slip: a debug dump that could not be written is recorded as a
\* failure of the email
SaveDebug_RecordsFailure(r, outcome) ==
    /\ Running(r, "debug")
    /\ files' = IF outcome = "written"
                THEN saveDebugEmail(files, clock, job[r].EmailID, msg[r], outcome)
                ELSE saveEmailResult(files, clock, job[r], "failure",
                                     <<"Failed to save debug email">>,
                                     MessageLength(job[r].Req), "written")
    /\ writes' = [writes EXCEPT ![r] = Append(@, <<"debug", outcome>>)]
    /\ ret' = [ret EXCEPT ![r] = "nil"]
    /\ gpc' = [gpc EXCEPT ![r] = "done"]
    /\ UNCHANGED <<cfg, alive, nextUUID, hpc, resp, job, msg, calls, store, inbox, clock,
                   vreq, vout, zone, fetches>>

\* s.saveDebugEmail(emailID, m, req), then return nil
SaveDebug(r, outcome) ==
    /\ Running(r, "debug")
    /\ files' = saveDebugEmail(files, clock, job[r].EmailID, msg[r], outcome)
    /\ writes' = [writes EXCEPT ![r] = Append(@, <<"debug", outcome>>)]
    /\ ret' = [ret EXCEPT ![r] = "nil"]
    /\ gpc' = [gpc EXCEPT ![r] = "done"]
    /\ UNCHANGED <<cfg, alive, nextUUID, hpc, resp, job, msg, calls, store, inbox, clock,
                   vreq, vout, zone, fetches>>

\* a panic inside the goroutine: "go func()" has no recover, so the Go runtime
\* ends the process and with it every handler and every other goroutine
Panic(r) ==
    /\ alive
    /\ gpc[r] \in {"spawned", "delivering", "debug"}
    /\ alive' = FALSE
    /\ UNCHANGED <<cfg, nextUUID, hpc, resp, job, gpc, msg, calls, files, store, inbox,
                   writes, ret, clock, vreq, vout, zone, fetches>>

\* time passes
Tick ==
    /\ alive
    /\ clock < MaxClock
    /\ clock' = clock + 1
    /\ UNCHANGED <<cfg, alive, nextUUID, hpc, resp, job, gpc, msg, calls, files, store,
                   inbox, writes, ret, vreq, vout, zone, fetches>>

Next ==
    \/ \E r \in Slots, t \in Requests : GetHealth(r, t)
    \/ \E r \in Slots, t \in Requests : NotFound(r, t)
    \/ \E r \in Slots, t \in Requests : Forbidden(r, t)
    \/ \E r \in Slots, t \in Requests : SendEmailJSON(r, t)
    \/ \E r \in Slots, t \in Requests : \E fault \in StagingFaults(t.Files) :
          SendEmailMultipart(r, t, fault)
    \/ \E r \in Slots : Respond(r)
    \/ \E r \in Slots, k \in 1..MaxAttachments, o \in WriteOutcomes : AttachmentFails(r, k, o)
    \/ \E r \in Slots : StartDelivery(r)
    \/ \E r \in Slots, e \in TransportErrors, o \in WriteOutcomes : TransportFails(r, e, o)
    \/ \E r \in Slots, o \in WriteOutcomes : TransportSucceeds(r, o)
    \/ \E r \in Slots, o \in WriteOutcomes : SaveDebug(r, o)
    \/ \E r \in Slots : Panic(r)

Spec == Init /\ [][Next]_vars

\* the server with the calendar date advancing under it
NextWithClock == Next \/ Tick

SpecWithClock == Init /\ [][NextWithClock]_vars

----------------------------------------------------------------------------
(* validateEmailRequest on its own, over every request within the bounds *)

Repeat(ch, n) == [i \in 1..n |-> ch]

ValidatorRequests ==
    [RecipientEmail : StringsUpTo({"a", "@"}, CfgMaxLenRecipientEmail + OverLimit),
     Subject : {Repeat("s", n) : n \in 0..(CfgMaxLenSubject + OverLimit)},
     Body : {Repeat("b", n) : n \in 0..(CfgMaxLenBody + OverLimit)},
     BodyType : {PLAIN, HTML, <<>>, <<"r", "t", "f">>, <<"P", "L", "A", "I", "N">>},
     Debug : {FALSE}]

ValidatorInit ==
    /\ cfg = BaseConfig
    /\ alive = TRUE
    /\ nextUUID = 0
    /\ hpc = [r \in Slots |-> "idle"]
    /\ resp = [r \in Slots |-> NoValue]
    /\ job = [r \in Slots |-> NoValue]
    /\ gpc = [r \in Slots |-> "none"]
    /\ msg = [r \in Slots |-> NoValue]
    /\ calls = [r \in Slots |-> <<>>]
    /\ files = [p \in {} |-> NoValue]
    /\ store = {}
    /\ inbox = [r \in Slots |-> NoValue]
    /\ writes = [r \in Slots |-> <<>>]
    /\ ret = [r \in Slots |-> NotReturned]
    /\ clock = 0
    /\ zone = 0
    /\ fetches = [r \in Slots |-> <<>>]
    /\ vreq \in ValidatorRequests
    /\ vout = NoValue

\* s.validateEmailRequest(&req) is called and returns
Validate ==
    /\ vout = NoValue
    /\ vout' = [Returned |-> validateEmailRequest(vreq, cfg)]
    /\ UNCHANGED <<cfg, alive, nextUUID, hpc, resp, job, gpc, msg, calls, files, store,
                   inbox, writes, ret, clock, vreq, zone, fetches>>

ValidatorSpec == ValidatorInit /\ [][Validate]_vars

----------------------------------------------------------------------------
(* saveEmailResult on its own: any sequence of recordings, the clock running *)

\* the jobs whose outcomes are recorded: two identifiers
RecorderJobs ==
    {Job(JSONRequest(GoodPlain), NewUUID(n), RemoteAddr, getHeaders(RequestHeader(HdrGood)),
         <<>>) : n \in 0..1}

RecorderDetails ==
    {<<"Email sent successfully">>,
     <<"Failed to send email: %v", "535 authentication failed">>}

RecorderInit ==
    /\ cfg = BaseConfig
    /\ alive = TRUE
    /\ nextUUID = 0
    /\ hpc = [r \in Slots |-> "idle"]
    /\ resp = [r \in Slots |-> NoValue]
    /\ job = [r \in Slots |-> NoValue]
    /\ gpc = [r \in Slots |-> "none"]
    /\ msg = [r \in Slots |-> NoValue]
    /\ calls = [r \in Slots |-> <<>>]
    /\ files = [p \in {} |-> NoValue]
    /\ store = {}
    /\ inbox = [r \in Slots |-> NoValue]
    /\ writes = [r \in Slots |-> <<>>]
    /\ ret = [r \in Slots |-> NotReturned]
    /\ clock = 0
    /\ zone \in Zones
    /\ fetches = [r \in Slots |-> <<>>]
    /\ vreq = NoValue
    /\ vout = NoValue

\* s.saveEmailResult(emailID, status, detail, ...) is called; vout keeps the
\* call and vreq the call before it
Record(j, status, detail, outcome) ==
    /\ Len(writes[1]) < MaxRecordings
    /\ files' = saveEmailResult(files, clock, j, status, detail, MessageLength(j.Req), outcome)
    /\ writes' = [writes EXCEPT ![1] = Append(@, <<"result", outcome>>)]
    /\ vreq' = vout
    /\ vout' = [Job |-> j, Status |-> status, Detail |-> detail, At |-> clock,
                Outcome |-> outcome]
    /\ UNCHANGED <<cfg, alive, nextUUID, hpc, resp, job, gpc, msg, calls, store, inbox, ret,
                   clock, zone, fetches>>

RecorderNext ==
    \/ \E j \in RecorderJobs, status \in {"success", "failure"}, detail \in RecorderDetails,
          o \in WriteOutcomes : Record(j, status, detail, o)
    \/ Tick

RecorderSpec == RecorderInit /\ [][RecorderNext]_vars

----------------------------------------------------------------------------
(* addAttachment's file name on its own: staged names and arbitrary names *)

MaxLenFilename == 3

Filenames == StringsUpTo({"a", "_"}, MaxLenFilename)

\* object names as staging builds them, with the file name they were built for
StagedNames ==
    {[Staged |-> TRUE, Filename |-> f, Name |-> ObjectName(NewUUID(n), f)] :
        f \in Filenames, n \in 0..2}

\* object names that staging did not build: short ones, and ones that have
\* another character where staging puts the "_"
OtherNames ==
    {[Staged |-> FALSE, Filename |-> <<>>, Name |-> f] : f \in Filenames}
    \cup {[Staged |-> FALSE, Filename |-> <<>>, Name |-> NewUUID(0) \o <<"a">> \o f] :
            f \in Filenames}
    \cup {[Staged |-> FALSE, Filename |-> <<>>, Name |-> NewUUID(0)]}

DecoderInit ==
    /\ cfg = BaseConfig
    /\ alive = TRUE
    /\ nextUUID = 0
    /\ hpc = [r \in Slots |-> "idle"]
    /\ resp = [r \in Slots |-> NoValue]
    /\ job = [r \in Slots |-> NoValue]
    /\ gpc = [r \in Slots |-> "none"]
    /\ msg = [r \in Slots |-> NoValue]
    /\ calls = [r \in Slots |-> <<>>]
    /\ files = [p \in {} |-> NoValue]
    /\ store = {}
    /\ inbox = [r \in Slots |-> NoValue]
    /\ writes = [r \in Slots |-> <<>>]
    /\ ret = [r \in Slots |-> NotReturned]
    /\ clock = 0
    /\ zone = 0
    /\ fetches = [r \in Slots |-> <<>>]
    /\ vreq \in StagedNames \cup OtherNames
    /\ vout = NoValue

\* addAttachment works out the file name of object vreq.Name
Decode ==
    /\ vout = NoValue
    /\ vout' = [Returned |-> AttachmentFilename(vreq.Name)]
    /\ UNCHANGED <<cfg, alive, nextUUID, hpc, resp, job, gpc, msg, calls, files, store,
                   inbox, writes, ret, clock, vreq, zone, fetches>>

DecoderSpec == DecoderInit /\ [][Decode]_vars

----------------------------------------------------------------------------
-----------------------------------------------------------------------------
(* Config.setDefaults on its own: applied once and again to a loaded config *)

DefaultAPIName == <<"High-Performance SMTP API">>
DefaultAPIDescription == <<"SMTP API mail dispatch with support for attachments.">>
DefaultMaxLenRecipientEmail == 64
DefaultMaxLenSubject == 255
DefaultMaxLenBody == 50000

MaxApplications == 2

\* every default is assigned, whatever the field held
setDefaults_Overwrite(c) ==
    [c EXCEPT !.APIName = DefaultAPIName,
              !.APIDescription = DefaultAPIDescription,
              !.MaxLenRecipientEmail = DefaultMaxLenRecipientEmail,
              !.MaxLenSubject = DefaultMaxLenSubject,
              !.MaxLenBody = DefaultMaxLenBody]

\* c.setDefaults(): five fields, each assigned only when it holds the zero value
setDefaults(c) ==
    [c EXCEPT !.APIName = IF @ = <<>> THEN DefaultAPIName ELSE @,
              !.APIDescription = IF @ = <<>> THEN DefaultAPIDescription ELSE @,
              !.MaxLenRecipientEmail = IF @ = 0 THEN DefaultMaxLenRecipientEmail ELSE @,
              !.MaxLenSubject = IF @ = 0 THEN DefaultMaxLenSubject ELSE @,
              !.MaxLenBody = IF @ = 0 THEN DefaultMaxLenBody ELSE @]

\* what json.Unmarshal can leave in the fields: absent (zero value), the default
\* itself, and other values, a negative limit included
LoadedLimits(default) == {0, default, 1, -1}

LoadedConfigs ==
    [APIKey : {<<>>, <<"k">>},
     APIName : {<<>>, DefaultAPIName, <<"n">>},
     APIDescription : {<<>>, <<"d">>},
     Port : {0, 8000},
     MaxLenRecipientEmail : LoadedLimits(DefaultMaxLenRecipientEmail),
     MaxLenSubject : LoadedLimits(DefaultMaxLenSubject),
     MaxLenBody : LoadedLimits(DefaultMaxLenBody)]

DefaultsInit ==
    /\ cfg = BaseConfig
    /\ alive = TRUE
    /\ nextUUID = 0
    /\ hpc = [r \in Slots |-> "idle"]
    /\ resp = [r \in Slots |-> NoValue]
    /\ job = [r \in Slots |-> NoValue]
    /\ gpc = [r \in Slots |-> "none"]
    /\ msg = [r \in Slots |-> NoValue]
    /\ calls = [r \in Slots |-> <<>>]
    /\ files = [p \in {} |-> NoValue]
    /\ store = {}
    /\ inbox = [r \in Slots |-> NoValue]
    /\ writes = [r \in Slots |-> <<>>]
    /\ ret = [r \in Slots |-> NotReturned]
    /\ clock = 0
    /\ zone = 0
    /\ fetches = [r \in Slots |-> <<>>]
    /\ vreq \in LoadedConfigs
    /\ vout = <<>>

\* config.setDefaults() runs on the configuration as it is now; vout keeps the
\* configuration after each run
SetDefaults ==
    /\ Len(vout) < MaxApplications
    /\ vout' = Append(vout, setDefaults(IF vout = <<>> THEN vreq ELSE vout[Len(vout)]))
    /\ UNCHANGED <<cfg, alive, nextUUID, hpc, resp, job, gpc, msg, calls, files, store,
                   inbox, writes, ret, clock, vreq, zone, fetches>>

DefaultsSpec == DefaultsInit /\ [][SetDefaults]_vars

-----------------------------------------------------------------------------
(* removeJSONComments on its own: applied once and again to a settings text *)

MaxLenDocument == 5

NL == "\n"
Slash == "/"
Quote == "\""

\* strings.Split(s, "\n"): the pieces between the line feeds, empty ones included
RECURSIVE SplitLines(_)
SplitLines(s) ==
    IF ~ContainsChar(s, NL) THEN <<s>>
    ELSE LET i == CHOOSE k \in 1..Len(s) : s[k] = NL /\ \A m \in 1..(k - 1) : s[m] # NL
         IN <<SubSeq(s, 1, i - 1)>> \o SplitLines(SubSeq(s, i + 1, Len(s)))

\* strings.Join(lines, "\n")
RECURSIVE JoinLines(_)
JoinLines(lines) ==
    IF Len(lines) = 0 THEN <<>>
    ELSE IF Len(lines) = 1 THEN lines[1]
    ELSE lines[1] \o <<NL>> \o JoinLines(Tail(lines))

\* the positions of line at which a "//" starts
CommentStarts(line) ==
    {i \in 1..(Len(line) - 1) : line[i] = Slash /\ line[i + 1] = Slash}

\* a plausible slip: the last "//" of the line is taken for the comment
CommentPos_Last(line) ==
    IF CommentStarts(line) = {} THEN -1
    ELSE (CHOOSE i \in CommentStarts(line) : \A k \in CommentStarts(line) : i >= k) - 1

\* strings.Index(line, "//"): the offset of the first "//", -1 when there is none
CommentPos(line) ==
    IF CommentStarts(line) = {} THEN -1
    ELSE (CHOOSE i \in CommentStarts(line) : \A k \in CommentStarts(line) : i <= k) - 1

\* the body of the loop of removeJSONComments for one line
CleanLine(line) ==
    IF CommentPos(line) # -1 THEN TrimSpace(SubSeq(line, 1, CommentPos(line))) ELSE line

\* removeJSONComments(data)
removeJSONComments(data) ==
    LET lines == SplitLines(data)
    IN JoinLines([i \in 1..Len(lines) |-> CleanLine(lines[i])])

\* the settings texts: slashes, blanks, quotes, a letter and line feeds
Documents == StringsUpTo({Slash, " ", Quote, "a", NL}, MaxLenDocument)

CommentsInit ==
    /\ cfg = BaseConfig
    /\ alive = TRUE
    /\ nextUUID = 0
    /\ hpc = [r \in Slots |-> "idle"]
    /\ resp = [r \in Slots |-> NoValue]
    /\ job = [r \in Slots |-> NoValue]
    /\ gpc = [r \in Slots |-> "none"]
    /\ msg = [r \in Slots |-> NoValue]
    /\ calls = [r \in Slots |-> <<>>]
    /\ files = [p \in {} |-> NoValue]
    /\ store = {}
    /\ inbox = [r \in Slots |-> NoValue]
    /\ writes = [r \in Slots |-> <<>>]
    /\ ret = [r \in Slots |-> NotReturned]
    /\ clock = 0
    /\ zone = 0
    /\ fetches = [r \in Slots |-> <<>>]
    /\ vreq \in Documents
    /\ vout = <<>>

\* removeJSONComments runs on the text as it is now; vout keeps the text after
\* each run
RemoveComments ==
    /\ Len(vout) < MaxApplications
    /\ vout' = Append(vout, removeJSONComments(IF vout = <<>> THEN vreq ELSE vout[Len(vout)]))
    /\ UNCHANGED <<cfg, alive, nextUUID, hpc, resp, job, gpc, msg, calls, files, store,
                   inbox, writes, ret, clock, vreq, zone, fetches>>

CommentsSpec == CommentsInit /\ [][RemoveComments]_vars

-----------------------------------------------------------------------------
(* The two mail-send handlers on their own, given the same field values *)

\* a member or form field with value s, and one that is left out
Given(s) == [Value |-> s]
TextChoices(texts) == {Given(s) : s \in texts} \cup {NoValue}

\* the members a caller may send or leave out: empty, good, malformed or long
FieldChoices ==
    [recipient_email : TextChoices({<<>>, GoodRecipient, <<"a", "@", "b">>, <<"a", "b">>,
                                     LongRecipient}),
     subject : TextChoices({<<>>, <<"s">>, LongSubject}),
     body : TextChoices({<<>>, <<"b">>}),
     body_type : TextChoices({<<>>, PLAIN, HTML, <<"r", "t", "f">>})]

\* the body that carries the members of choice ch that are not left out
BodyOf(ch) ==
    [Malformed |-> FALSE,
     Fields |-> [k \in {key \in DOMAIN ch : ch[key] # NoValue} |-> <<ch[k].Value>>]]

Undecided == 0

DecisionInit ==
    /\ cfg \in {c \in Configs : c.WithAttachments}
    /\ alive = TRUE
    /\ nextUUID = 0
    /\ hpc = [r \in Slots |-> "idle"]
    /\ resp = [r \in Slots |-> NoValue]
    /\ job = [r \in Slots |-> NoValue]
    /\ gpc = [r \in Slots |-> "none"]
    /\ msg = [r \in Slots |-> NoValue]
    /\ calls = [r \in Slots |-> <<>>]
    /\ files = [p \in {} |-> NoValue]
    /\ store = {}
    /\ inbox = [r \in Slots |-> NoValue]
    /\ writes = [r \in Slots |-> <<>>]
    /\ ret = [r \in Slots |-> NotReturned]
    /\ clock = 0
    /\ zone = 0
    /\ fetches = [r \in Slots |-> <<>>]
    /\ vreq \in FieldChoices
    /\ vout = [JSON |-> Undecided, Form |-> Undecided]

\* POST /v1/mail/send with the members of vreq as a JSON body: the status of the
\* answer is kept
DecideJSON ==
    /\ vout.JSON = Undecided
    /\ vout' = [vout EXCEPT !.JSON =
                  sendEmail(Request("send", HdrGood, BodyOf(vreq), <<>>), cfg, store,
                            nextUUID).Response.Status]
    /\ UNCHANGED <<cfg, alive, nextUUID, hpc, resp, job, gpc, msg, calls, files, store,
                   inbox, writes, ret, clock, vreq, zone, fetches>>

\* POST /v1/mail/send-with-attachments with the members of vreq as form fields
\* and no file: the status of the answer is kept
DecideForm ==
    /\ vout.Form = Undecided
    /\ vout' = [vout EXCEPT !.Form =
                  sendEmailWithAttachments(Request("attach", HdrGood, BodyOf(vreq), <<>>),
                                           NoFault, cfg, store, nextUUID).Response.Status]
    /\ UNCHANGED <<cfg, alive, nextUUID, hpc, resp, job, gpc, msg, calls, files, store,
                   inbox, writes, ret, clock, vreq, zone, fetches>>

DecisionNext == DecideJSON \/ DecideForm

DecisionSpec == DecisionInit /\ [][DecisionNext]_vars

(* Shorthands of the properties *)

Accepted(r) == job[r] # NoValue
Answered(r) == resp[r] # NoValue

\* the outcome records under data/ that carry email_id id
OutcomeRecords(id) ==
    {p \in DOMAIN files : p[3] \in {"success", "failure"} /\ p[4] = id \o Json
                          /\ files[p] # Truncated}

\* the debug dumps under data/ of email_id id
DebugDumps(id) == {p \in DOMAIN files : p[3] = "debug" /\ p[4] = id \o EmailTxt}

----------------------------------------------------------------------------
(* C1: the order of the five checks *)

CheckFails(i, req, c) ==
    CASE i = 1 -> Len(req.RecipientEmail) > c.MaxLenRecipientEmail
      [] i = 2 -> Len(req.Subject) > c.MaxLenSubject
      [] i = 3 -> Len(req.Body) > c.MaxLenBody
      [] i = 4 -> req.BodyType \notin {PLAIN, HTML}
      [] i = 5 -> \A k \in 1..Len(req.RecipientEmail) : req.RecipientEmail[k] # "@"

ErrorOfCheck(i, c) ==
    CASE i = 1 -> ErrRecipientLen(c)
      [] i = 2 -> ErrSubjectLen(c)
      [] i = 3 -> ErrBodyLen(c)
      [] i = 4 -> ErrBodyType
      [] i = 5 -> ErrEmailFormat

FailingChecks(req, c) == {i \in 1..5 : CheckFails(i, req, c)}

ReferenceValidator(req, c) ==
    IF FailingChecks(req, c) = {} THEN Nil
    ELSE ErrorOfCheck(CHOOSE i \in FailingChecks(req, c) :
                          \A k \in FailingChecks(req, c) : i <= k, c)

\* C1: validateEmailRequest returns nil exactly when none of the five checks
\* fails, and otherwise the error of the lowest-numbered failing check
C1_FirstFailureWins ==
    vout # NoValue => vout.Returned = ReferenceValidator(vreq, cfg)

\* a recipient of exactly the maximum length passes check 1, and the request,
\* which fails checks 2, 4 and 5 together, is answered with the error of check 2
C1_Witness ==
    /\ vout # NoValue
    /\ Len(vreq.RecipientEmail) = cfg.MaxLenRecipientEmail
    /\ FailingChecks(vreq, cfg) = {2, 4, 5}
    /\ vout.Returned = ErrSubjectLen(cfg)

----------------------------------------------------------------------------
(* C2: a rejected request leaves nothing behind *)

MailSendRoutes == {"send", "attach"}

\* request r went to a mail-send endpoint and was answered with a non-200 status
Rejected(r) ==
    /\ Answered(r)
    /\ inbox[r].Route \in MailSendRoutes
    /\ resp[r].Status # 200

\* the files under data/ written for email_id id, records and dumps alike
FilesOf(id) == {p \in DOMAIN files : p[4] \in {id \o Json, id \o EmailTxt}}

\* C2: a mail-send request answered with a non-200 status gets no email
\* identifier, starts no background dispatch, never reaches the transport, and no
\* outcome record or debug dump is ever written for it: every file under data/
\* belongs to the identifier of an accepted request
C2_RejectedLeavesNothing ==
    /\ \A r \in Slots :
          Rejected(r) =>
            /\ "email_id" \notin DOMAIN resp[r].Body
            /\ job[r] = NoValue
            /\ gpc[r] = "none"
            /\ msg[r] = NoValue
            /\ calls[r] = <<>>
            /\ writes[r] = <<>>
            /\ ret[r] = NotReturned
    /\ \A p \in DOMAIN files :
          \E q \in Slots : Accepted(q) /\ ~Rejected(q) /\ p \in FilesOf(job[q].EmailID)

\* a JSON request that binds but is rejected by validation with 400, next to an
\* accepted request whose dispatch has written its record
C2_Witness ==
    \E r, q \in Slots :
        /\ Rejected(r)
        /\ resp[r].Status = 400
        /\ inbox[r].Route = "send"
        /\ BindErrors(inbox[r].Body) = {}
        /\ validateEmailRequest(JSONRequest(inbox[r].Body), cfg) # Nil
        /\ Accepted(q)
        /\ gpc[q] = "done"
        /\ FilesOf(job[q].EmailID) # {}

----------------------------------------------------------------------------
(* C3: identifiers *)

\* request r has been answered 200 with an email_id
AnsweredAccepted(r) ==
    /\ Answered(r)
    /\ resp[r].Status = 200
    /\ "email_id" \in DOMAIN resp[r].Body

\* C3: no two accepted requests of one running instance receive the same
\* email_id, and the Message-ID of the message composed for a request is
\* "<" + the email_id returned to its caller + "@" + the sender domain + ">"
C3_UniqueIdentifierInMessageID ==
    /\ \A r, q \in Slots :
          (Accepted(r) /\ Accepted(q) /\ r # q) => job[r].EmailID # job[q].EmailID
    /\ \A r, q \in Slots :
          (AnsweredAccepted(r) /\ AnsweredAccepted(q) /\ r # q) =>
             resp[r].Body.email_id # resp[q].Body.email_id
    /\ \A r \in Slots :
          (AnsweredAccepted(r) /\ msg[r] # NoValue) =>
             msg[r].MessageID =
                <<"<">> \o resp[r].Body.email_id \o <<"@">> \o cfg.SenderDomain \o <<">">>

\* two accepted requests, both answered and both with their message composed,
\* the second one accepted on the attachment endpoint after staging a file
C3_Witness ==
    \E r, q \in Slots :
        /\ r < q
        /\ AnsweredAccepted(r) /\ msg[r] # NoValue
        /\ AnsweredAccepted(q) /\ msg[q] # NoValue
        /\ job[q].AttachmentNames # <<>>
        /\ msg[r].MessageID # msg[q].MessageID

----------------------------------------------------------------------------
(* C4: the caller sees acceptance only *)

\* what the handlers read and write: nothing of it belongs to a dispatch
HandlerState == <<hpc, resp, job, nextUUID, store, inbox>>

\* a step of some background dispatch
DispatchStep == msg' # msg \/ calls' # calls \/ ret' # ret \/ writes' # writes

\* C4: the response to an accepted request is 200 with the fixed text and the
\* email_id whatever its dispatch does; the handler can write it at every moment
\* after "go func()", whether the transport has succeeded, failed or not yet
\* returned; and no step of a dispatch changes anything a handler reads or writes
C4_ResponseIndependentOfDispatch ==
    /\ [](\A r \in Slots :
            (Accepted(r) /\ hpc[r] = "done") =>
               resp[r] = Response(200, AcceptedBody(job[r].EmailID)))
    /\ [](\A r \in Slots : (alive /\ hpc[r] = "respond") => ENABLED Respond(r))
    /\ [][DispatchStep => UNCHANGED HandlerState]_vars

\* one caller was answered while the transport had not returned, the other
\* after the transport had failed: both hold the same 200
C4_Witness ==
    \E r, q \in Slots :
        /\ AnsweredAccepted(r) /\ gpc[r] = "delivering" /\ calls[r] = <<"pending">>
        /\ AnsweredAccepted(q) /\ gpc[q] = "done" /\ ret[q] \in TransportErrors
        /\ resp[r].Body.message = resp[q].Body.message

----------------------------------------------------------------------------
(* C5: one outcome record per accepted request *)

\* the dispatch of request r has returned from SendEmail
DispatchEnded(r) == gpc[r] = "done"

\* the attempts of request r's dispatch to write its outcome record
ResultWrites(r) == {i \in 1..Len(writes[r]) : writes[r][i][1] = "result"}

\* the paths under data/ of outcome records of email_id id, whatever they hold
RecordPaths(id) ==
    {p \in DOMAIN files : p[3] \in {"success", "failure"} /\ p[4] = id \o Json}

\* C5 as stated: once the dispatch of an accepted request has ended, exactly one
\* outcome record keyed by its email_id exists
C5_Original ==
    \A r \in Slots :
        (Accepted(r) /\ DispatchEnded(r)) =>
           Cardinality(OutcomeRecords(job[r].EmailID)) = 1

\* C5 amended: the dispatch of an accepted request attempts to write its
\* outcome record at most once, and exactly once by the time it ends; at most
\* one record keyed by the email_id exists, it exists exactly when that attempt
\* wrote the whole file, and a record file once written is never changed
C5_AtMostOneRecordWrittenOnce ==
    /\ [](\A r \in Slots :
            Accepted(r) =>
              /\ Cardinality(ResultWrites(r)) <= 1
              /\ DispatchEnded(r) => Cardinality(ResultWrites(r)) = 1
              /\ Cardinality(RecordPaths(job[r].EmailID)) <= 1
              /\ Cardinality(OutcomeRecords(job[r].EmailID)) =
                    IF \E i \in ResultWrites(r) : writes[r][i][2] = "written"
                    THEN 1 ELSE 0)
    /\ [][\A p \in DOMAIN files :
            p[3] \in {"success", "failure"} => (p \in DOMAIN files' /\ files'[p] = files[p])]_vars

\* one dispatch has ended with its record written, another has ended after its
\* only write attempt failed and has no record
C5_Witness ==
    \E r, q \in Slots :
        /\ Accepted(r) /\ DispatchEnded(r)
        /\ Cardinality(OutcomeRecords(job[r].EmailID)) = 1
        /\ Accepted(q) /\ DispatchEnded(q)
        /\ writes[q] = << <<"result", "failed">> >>
        /\ RecordPaths(job[q].EmailID) = {}

----------------------------------------------------------------------------
(* C6: a single delivery attempt *)

\* the transport call of request r has returned an error
TransportFailed(r) == calls[r] # <<>> /\ calls[r][1] \in TransportErrors

\* the dispatch of request r has recorded (or tried to record) its outcome
Recorded(r) == gpc[r] \in {"debug", "done"}

\* C6: the transport deliver operation is called at most once per accepted
\* request; after a transport error the dispatch has made its one attempt to
\* record the failure and has ended, returning that error; and no step leads a
\* failed or recorded request back to composing or delivering
C6_SingleDeliveryAttempt ==
    /\ [](\A r \in Slots :
            /\ Len(calls[r]) <= 1
            /\ TransportFailed(r) =>
                  /\ DispatchEnded(r)
                  /\ ret[r] = calls[r][1]
                  /\ Cardinality(ResultWrites(r)) = 1)
    /\ [][\A r \in Slots :
            Recorded(r) => (Recorded(r)' /\ calls'[r] = calls[r] /\ msg'[r] = msg[r])]_vars

\* one dispatch ended on a transport error after its single call, another was
\* delivered by its single call
C6_Witness ==
    \E r, q \in Slots :
        /\ TransportFailed(r) /\ DispatchEnded(r) /\ Len(calls[r]) = 1
        /\ calls[q] = <<"ok">> /\ DispatchEnded(q)

----------------------------------------------------------------------------
(* C7: the record tells what the transport returned *)

\* the accepted requests whose email_id names record file p
OwnersOf(p) == {r \in Slots : Accepted(r) /\ p[4] = job[r].EmailID \o Json}

\* record rec, filed under directory dir, agrees with the dispatch of request r
AgreesWithDispatch(rec, dir, r) ==
    \/ /\ rec.Status = "success"
       /\ dir = "success"
       /\ calls[r] = <<"ok">>
    \/ /\ rec.Status = "failure"
       /\ dir = "failure"
       /\ TransportFailed(r)
       /\ rec.Detail = <<"Failed to send email: %v", calls[r][1]>>
    \/ /\ rec.Status = "failure"
       /\ dir = "failure"
       /\ calls[r] = <<>>
       /\ ret[r] = FetchError
       /\ rec.Detail = <<"Failed to add attachment: %v", FetchError>>

\* C7: every outcome record belongs to one accepted request and agrees with its
\* dispatch: status "success" only if the transport call for that email_id
\* returned without error, status "failure" only if the attachment fetch or
\* the transport call returned an error, whose text is in the record's detail
C7_RecordAgreesWithTransport ==
    \A p \in DOMAIN files :
        (p[3] \in {"success", "failure"} /\ files[p] # Truncated) =>
           /\ files[p].EmailID \o Json = p[4]
           /\ Cardinality(OwnersOf(p)) = 1
           /\ \A r \in OwnersOf(p) : AgreesWithDispatch(files[p], p[3], r)

\* a failure record that carries the transport's error text next to a success
\* record of a delivered message
C7_Witness ==
    \E p, q \in DOMAIN files :
        /\ p[3] = "failure" /\ files[p] # Truncated
        /\ \E e \in TransportErrors : files[p].Detail = <<"Failed to send email: %v", e>>
        /\ q[3] = "success" /\ files[q] # Truncated
        /\ files[q].Status = "success"

----------------------------------------------------------------------------
(* C8: a failing dispatch and the rest of the process *)

\* C8: a failure inside one background dispatch, a panic included, is confined
\* to its request: the process keeps running, so that every other request can
\* still complete, and a dispatch that ended on a transport or attachment
\* error has recorded a failure outcome for its email_id
C8_FailureConfined ==
    /\ alive
    /\ \A r \in Slots :
          (DispatchEnded(r) /\ ret[r] \in TransportErrors \cup {FetchError}) =>
             /\ Cardinality(ResultWrites(r)) = 1
             /\ \A p \in OutcomeRecords(job[r].EmailID) : files[p].Status = "failure"

----------------------------------------------------------------------------
(* C9: the API key *)

\* the value of the X-API-Key header of request r as the server reads it
KeySent(r) == GetHeader(RequestHeader(inbox[r].Wire), XAPIKey)

\* a non-blank API key is configured
KeyConfigured == TrimSpace(cfg.APIKey) # <<>>

\* C9: with a non-blank key configured, a mail-send request whose X-API-Key is
\* absent or differs from the key is answered 403 and its handler is not run;
\* with an empty or all-whitespace key no mail-send request is answered 403,
\* whatever it sends as X-API-Key; GET /health is answered 200 in both cases
C9_KeyGuardsMailRoutesOnly ==
    \A r \in Slots :
        inbox[r] # NoValue =>
          /\ (inbox[r].Route \in MailRoutes(cfg) /\ KeyConfigured /\ KeySent(r) # cfg.APIKey) =>
                /\ hpc[r] = "done"
                /\ resp[r].Status = 403
                /\ resp[r].Body = ErrorBody("Could not validate credentials")
                /\ ~Accepted(r)
          /\ (inbox[r].Route \in MailRoutes(cfg) /\ ~KeyConfigured) =>
                (Answered(r) => resp[r].Status # 403)
          /\ (inbox[r].Route \in MailRoutes(cfg) /\ ~KeyConfigured /\ KeySent(r) = <<>>
                /\ inbox[r].Body = GoodPlain /\ inbox[r].Files = <<>>) => Accepted(r)
          /\ inbox[r].Route = "health" =>
                /\ resp[r].Status = 200
                /\ resp[r].Body = HealthBody(RequestHeader(inbox[r].Wire))

\* with a key configured, a request without the header was answered 403 and a
\* request carrying the key was accepted
C9_Witness ==
    \E r, q \in Slots :
        /\ KeyConfigured
        /\ inbox[r] # NoValue /\ inbox[r].Route = "send" /\ KeySent(r) = <<>>
        /\ Answered(r) /\ resp[r].Status = 403
        /\ inbox[q] # NoValue /\ inbox[q].Route = "send" /\ KeySent(q) = cfg.APIKey
        /\ Accepted(q)

\* with an all-whitespace key, a request without the header was accepted
C9_BlankKeyServes ==
    \E r \in Slots :
        /\ cfg.APIKey # <<>> /\ ~KeyConfigured
        /\ inbox[r] # NoValue /\ KeySent(r) = <<>> /\ Accepted(r)

----------------------------------------------------------------------------
(* C10: the API key stays out of the records *)

\* the whole outcome records under data/
WholeRecords ==
    {p \in DOMAIN files : p[3] \in {"success", "failure"} /\ files[p] # Truncated}

\* the header lines of wire whose name is name, letter case aside
LinesNamed(wire, name) == {i \in 1..Len(wire) : ToLower(wire[i][1]) = ToLower(name)}

\* the value of the first header line of wire named name
FirstValue(wire, name) ==
    wire[CHOOSE i \in LinesNamed(wire, name) : \A k \in LinesNamed(wire, name) : i <= k][2]

\* C10: the headers of an outcome record have no entry named x-api-key under
\* case-insensitive comparison, however the request spelled the name; every
\* other header of the request is kept, once, with its first value; and the
\* record holds no header the request did not carry
C10_RecordHeadersWithoutKey ==
    \A p \in WholeRecords : \A r \in OwnersOf(p) :
        /\ \A k \in DOMAIN files[p].Headers : ToLower(k) # LowerXAPIKey
        /\ \A i \in 1..Len(inbox[r].Wire) :
              ToLower(inbox[r].Wire[i][1]) # LowerXAPIKey =>
                 /\ Cardinality({k \in DOMAIN files[p].Headers :
                                    ToLower(k) = ToLower(inbox[r].Wire[i][1])}) = 1
                 /\ \A k \in DOMAIN files[p].Headers :
                       ToLower(k) = ToLower(inbox[r].Wire[i][1]) =>
                          files[p].Headers[k] = FirstValue(inbox[r].Wire, inbox[r].Wire[i][1])
        /\ \A k \in DOMAIN files[p].Headers : LinesNamed(inbox[r].Wire, k) # {}

\* a record of a request that sent the key under a lower-case header name next
\* to another header, and a record of a request that sent one header twice
C10_Witness ==
    \E p, q \in WholeRecords : \E r \in OwnersOf(p), u \in OwnersOf(q) :
        /\ \E i \in 1..Len(inbox[r].Wire) : inbox[r].Wire[i][1] = LowerXAPIKey
        /\ DOMAIN files[p].Headers # {}
        /\ \E i \in 1..Len(inbox[u].Wire) :
              Cardinality(LinesNamed(inbox[u].Wire, inbox[u].Wire[i][1])) = 2

----------------------------------------------------------------------------
(* C11: the body type *)

\* the EmailRequest the handler of request r builds from what was sent
RequestOf(r) ==
    IF inbox[r].Route = "send" THEN JSONRequest(inbox[r].Body) ELSE FormRequest(inbox[r].Body)

\* request r went to a mail-send endpoint and its payload could be decoded
Decoded(r) ==
    /\ inbox[r] # NoValue
    /\ inbox[r].Route \in MailSendRoutes
    /\ ~inbox[r].Body.Malformed

\* C11: a request whose body_type is neither "plain" nor "html" is never
\* accepted, and when it is the only thing wrong the 400 names the body type;
\* the message composed for an accepted request is text/plain when its
\* body_type is "plain" and text/html when it is "html"
C11_BodyTypeDecidesContentType ==
    \A r \in Slots :
        Decoded(r) =>
          /\ RequestOf(r).BodyType \notin {PLAIN, HTML} =>
                /\ ~Accepted(r)
                /\ resp[r].Status # 200
                /\ msg[r] = NoValue
          /\ (RequestOf(r).BodyType \notin {PLAIN, HTML} /\ resp[r].Status = 400
                /\ FailingChecks(RequestOf(r), cfg) = {4}) =>
                resp[r].Body = ErrorBody(ErrBodyType)
          /\ Accepted(r) =>
                /\ job[r].Req.BodyType = RequestOf(r).BodyType
                /\ job[r].Req.BodyType \in {PLAIN, HTML}
          /\ (Accepted(r) /\ msg[r] # NoValue) =>
                msg[r].ContentType =
                   IF job[r].Req.BodyType = PLAIN THEN "text/plain" ELSE "text/html"

\* an html message composed as text/html next to a request rejected only for
\* its body_type "HTML"
C11_Witness ==
    \E r, q \in Slots :
        /\ Accepted(r) /\ msg[r] # NoValue
        /\ job[r].Req.BodyType = HTML /\ msg[r].ContentType = "text/html"
        /\ Decoded(q) /\ Answered(q) /\ resp[q].Status = 400
        /\ RequestOf(q).BodyType = <<"H", "T", "M", "L">>
        /\ FailingChecks(RequestOf(q), cfg) = {4}

----------------------------------------------------------------------------
(* C12: a JSON request without body_type *)

\* request r is a JSON request that carries every member the published schema
\* requires, leaves body_type out or empty, and is valid once body_type has the
\* schema's default
ValidButForBodyType(r) ==
    /\ Decoded(r)
    /\ inbox[r].Route = "send"
    /\ \A k \in OpenAPIRequired : JSONField(inbox[r].Body.Fields, k) # <<>>
    /\ BindErrors(inbox[r].Body) = {}
    /\ JSONField(inbox[r].Body.Fields, "body_type") = <<>>
    /\ validateEmailRequest([RequestOf(r) EXCEPT !.BodyType = OpenAPIBodyTypeDefault], cfg) = Nil

\* C12: a JSON request to /v1/mail/send that omits body_type and is otherwise
\* valid is accepted as body_type "plain" and composed as text/plain
C12_OmittedBodyTypeIsPlain ==
    \A r \in Slots :
        (ValidButForBodyType(r) /\ Answered(r) /\ resp[r].Status # 403) =>
           /\ resp[r].Status = 200
           /\ Accepted(r)
           /\ job[r].Req.BodyType = PLAIN
           /\ msg[r] # NoValue => msg[r].ContentType = "text/plain"

----------------------------------------------------------------------------
(* C13: the debug dump *)

\* the accepted requests whose email_id names debug dump p
DumpOwners(p) == {r \in Slots : Accepted(r) /\ p[4] = job[r].EmailID \o EmailTxt}

\* the attempts of request r's dispatch to write its debug dump
DebugWrites(r) == {i \in 1..Len(writes[r]) : writes[r][i][1] = "debug"}

DumpPaths == {p \in DOMAIN files : p[3] = "debug"}

\* C13 as stated: a debug dump exists only for a request with the debug flag
\* whose message was delivered, and the success record of its email_id was
\* written before it
C13_Original ==
    \A p \in DumpPaths :
        /\ DumpOwners(p) # {}
        /\ \A r \in DumpOwners(p) :
              /\ job[r].Req.Debug
              /\ calls[r] = <<"ok">>
              /\ \E q \in RecordPaths(job[r].EmailID) : q[3] = "success"

\* C13 amended: a debug dump is attempted, and so exists, only for a request
\* with the debug flag whose message was delivered, and only after the one
\* attempt to write the success record of its email_id, whether or not that
\* attempt left a record; a request without the flag, or whose delivery or
\* attachment fetch failed, never gets a dump
C13_DumpOnlyAfterDebugSuccess ==
    /\ \A p \in DumpPaths :
          /\ DumpOwners(p) # {}
          /\ \A r \in DumpOwners(p) : DebugWrites(r) # {}
    /\ \A r \in Slots :
          /\ DebugWrites(r) # {} =>
                /\ Accepted(r)
                /\ job[r].Req.Debug
                /\ calls[r] = <<"ok">>
                /\ Len(writes[r]) = 2
                /\ writes[r][1][1] = "result"
                /\ DebugWrites(r) = {2}
                /\ \A q \in RecordPaths(job[r].EmailID) : q[3] = "success"
          /\ (Accepted(r) /\ (~job[r].Req.Debug \/ calls[r] # <<"ok">>)) =>
                /\ DebugWrites(r) = {}
                /\ DebugDumps(job[r].EmailID) = {}

\* a dump written after the success record of a delivered debug request, and a
\* delivered request without the flag that has its record and no dump
C13_Witness ==
    \E r, q \in Slots :
        /\ Accepted(r) /\ DispatchEnded(r)
        /\ writes[r] = << <<"result", "written">>, <<"debug", "written">> >>
        /\ DebugDumps(job[r].EmailID) # {}
        /\ Accepted(q) /\ DispatchEnded(q) /\ ~job[q].Req.Debug
        /\ calls[q] = <<"ok">> /\ writes[q] = << <<"result", "written">> >>

----------------------------------------------------------------------------
(* C14: the message length of a record *)

\* C14: the message_length of every outcome record, success or failure, is
\* len(subject) + len(body) + len(recipient) of the request it belongs to
C14_MessageLengthIsSum ==
    \A p \in WholeRecords : \A r \in OwnersOf(p) :
        files[p].MessageLength =
            Len(job[r].Req.Subject) + Len(job[r].Req.Body) + Len(job[r].Req.RecipientEmail)

----------------------------------------------------------------------------
(* C15: recording twice under one identifier *)

\* the record a saveEmailResult call is to leave on disk
RecordOf(call) ==
    [EmailID |-> call.Job.EmailID, Status |-> call.Status, Detail |-> call.Detail,
     Timestamp |-> call.At, ClientIP |-> call.Job.ClientIP, Headers |-> call.Job.Headers,
     MessageLength |-> MessageLength(call.Job.Req)]

PathOf(call) == ResultPath(DateOf(call.At), call.Status, call.Job.EmailID)

\* the last two saveEmailResult calls both wrote their file and carried the
\* same email_id
TwoRecordingsOfOneID ==
    /\ vreq # NoValue /\ vout # NoValue
    /\ vreq.Outcome = "written" /\ vout.Outcome = "written"
    /\ vreq.Job.EmailID = vout.Job.EmailID

\* C15 as stated: after two outcomes with the same email_id were recorded one
\* after the other, exactly one record of that identifier exists and its
\* content is that of the second write
C15_Original ==
    TwoRecordingsOfOneID =>
       /\ Cardinality(RecordPaths(vout.Job.EmailID)) = 1
       /\ \A p \in RecordPaths(vout.Job.EmailID) : files[p] = RecordOf(vout)

\* C15 amended: after two outcomes with the same email_id and the same status
\* were recorded on the same date, one record exists at the path of that date,
\* status and identifier and its content is that of the second write; when
\* they differ in status both records are kept, one under success/ and one
\* under failure/; a recording touches no file but its own; and recording the
\* same outcome twice at the same instant leaves the state of recording it once
C15_OverwriteAtSamePath ==
    /\ [](TwoRecordingsOfOneID =>
            /\ PathOf(vout) \in DOMAIN files
            /\ files[PathOf(vout)] = RecordOf(vout)
            /\ PathOf(vreq) \in DOMAIN files
            /\ PathOf(vreq) # PathOf(vout) => files[PathOf(vreq)] = RecordOf(vreq)
            /\ PathOf(vreq) = PathOf(vout) <=>
                  /\ StatusDir(vreq.Status) = StatusDir(vout.Status)
                  /\ DateOf(vreq.At) = DateOf(vout.At))
    /\ [][writes' # writes =>
            /\ DOMAIN files \subseteq DOMAIN files'
            /\ DOMAIN files' \subseteq DOMAIN files \cup {PathOf(vout')}
            /\ \A p \in DOMAIN files : p # PathOf(vout') => files'[p] = files[p]]_vars
    /\ [][(writes' # writes /\ vout # NoValue /\ vout.Outcome = "written" /\ vout' = vout) =>
            files' = files]_vars

\* a failure outcome overwritten by a different failure outcome of the same
\* email_id on the same date: one record, holding the second
C15_Witness ==
    /\ TwoRecordingsOfOneID
    /\ vreq.Status = "failure" /\ vout.Status = "failure"
    /\ vreq.Detail # vout.Detail
    /\ DateOf(vreq.At) = DateOf(vout.At) /\ vreq.At # vout.At
    /\ Cardinality(RecordPaths(vout.Job.EmailID)) = 1
    /\ files[PathOf(vout)] = RecordOf(vout)

----------------------------------------------------------------------------
(* C16: all attachments or none *)

\* name is an object name built for filename: a UUID, "_", the file name
IsObjectNameOf(name, filename) ==
    /\ Len(name) = UUIDLen + 1 + Len(filename)
    /\ \E n \in 0..(nextUUID - 1) : SubSeq(name, 1, UUIDLen) = NewUUID(n)
    /\ name[UUIDLen + 1] = "_"
    /\ SubSeq(name, UUIDLen + 2, Len(name)) = filename

\* C16: a dispatch exists only when every submitted file passed the size check
\* and was stored, with one object name per file in submission order, and the
\* message handed to the transport carries as many attachments as the request
\* submitted files; a dispatch that could not fetch an attachment never reaches
\* the transport
C16_AllAttachmentsOrNone ==
    \A r \in Slots :
        Accepted(r) =>
          /\ Len(job[r].AttachmentNames) = Len(inbox[r].Files)
          /\ \A i \in 1..Len(inbox[r].Files) :
                /\ inbox[r].Files[i].Size <= MaxAttachmentBytes
                /\ IsObjectNameOf(job[r].AttachmentNames[i], inbox[r].Files[i].Filename)
                /\ job[r].AttachmentNames[i] \in store
          /\ \A i, k \in 1..Len(job[r].AttachmentNames) :
                i # k => job[r].AttachmentNames[i] # job[r].AttachmentNames[k]
          /\ calls[r] # <<>> =>
                /\ msg[r] # NoValue
                /\ Len(msg[r].Attachments) = Len(inbox[r].Files)
                /\ ret[r] # FetchError
          /\ ret[r] = FetchError => (calls[r] = <<>> /\ msg[r] = NoValue)

\* a request with two files was handed to the transport with two attachments,
\* and a request whose second file could not be uploaded was answered 500 and
\* not dispatched
C16_Witness ==
    \E r, q \in Slots :
        /\ Accepted(r) /\ Len(inbox[r].Files) = 2
        /\ calls[r] # <<>> /\ Len(msg[r].Attachments) = 2
        /\ inbox[q] # NoValue /\ Len(inbox[q].Files) = 2
        /\ Answered(q) /\ resp[q].Status = 500 /\ ~Accepted(q)
        /\ resp[q].Body = ErrorBody("Failed to upload attachment")

----------------------------------------------------------------------------
(* C17: more files than allowed *)

\* in this step the multipart handler runs for request r, which submits more
\* files than the maximum
TooManyFilesHandled(r) ==
    /\ inbox[r] = NoValue
    /\ inbox'[r] # NoValue
    /\ inbox'[r].Route = "attach"
    /\ Len(inbox'[r].Files) > MaxAttachments
    /\ resp'[r] # NoValue
    /\ resp'[r].Status \notin {403, 404}

\* C17: the multipart handler answers a request with more than 2 files with
\* 400 and starts nothing, with the count message when the form is otherwise
\* valid, and the step leaves the store as it was: no file of the request is
\* opened or uploaded and no object name is generated
C17_TooManyFilesLeaveStoreUnchanged ==
    [][\A r \in Slots :
         TooManyFilesHandled(r) =>
           /\ resp'[r].Status = 400
           /\ job'[r] = NoValue
           /\ hpc'[r] = "done"
           /\ store' = store
           /\ nextUUID' = nextUUID
           /\ validateEmailRequest(FormRequest(inbox'[r].Body), cfg) = Nil =>
                 resp'[r].Body = ErrorBody("You can only upload up to 2 attachments")]_vars

\* a request with three files was answered 400 for their number while the
\* store holds exactly the two objects of an accepted request
C17_Witness ==
    \E r, q \in Slots :
        /\ inbox[r] # NoValue /\ Len(inbox[r].Files) = 3
        /\ Answered(r) /\ resp[r].Status = 400
        /\ validateEmailRequest(FormRequest(inbox[r].Body), cfg) = Nil
        /\ resp[r].Body = ErrorBody("You can only upload up to 2 attachments")
        /\ Accepted(q) /\ Len(job[q].AttachmentNames) = 2
        /\ store = {job[q].AttachmentNames[1], job[q].AttachmentNames[2]}

----------------------------------------------------------------------------
(* C18: the file name survives staging *)

\* C18: the object name staging builds for file name f is decoded back to
\* exactly f, underscores in f included; an object name that is too short or
\* has no "_" right after its first 36 characters is used unchanged
C18_FilenameRoundTrip ==
    vout # NoValue =>
       /\ vreq.Staged => vout.Returned = vreq.Filename
       /\ (Len(vreq.Name) <= UUIDLen \/ vreq.Name[UUIDLen + 1] # "_") =>
             vout.Returned = vreq.Name

\* a file name that itself has underscores came back whole
C18_Witness ==
    /\ vout # NoValue
    /\ vreq.Staged
    /\ vreq.Filename = <<"_", "a", "_">>
    /\ vout.Returned = <<"_", "a", "_">>

----------------------------------------------------------------------------
(* C19: the From header *)

\* the display identity when it is not blank, the sender address otherwise
DisplayIdentity ==
    IF TrimSpace(cfg.SenderEmailDisplay) # <<>> THEN cfg.SenderEmailDisplay
    ELSE cfg.SenderEmail

\* the sender rule
SenderRule ==
    IF cfg.UsePassword /\ DisplayIdentity # cfg.SenderEmail
    THEN [Address |-> cfg.SenderEmail, Name |-> DisplayIdentity]
    ELSE IF cfg.UsePassword
    THEN [Address |-> cfg.SenderEmail, Name |-> <<>>]
    ELSE [Address |-> DisplayIdentity, Name |-> <<>>]

\* C19: the From header of every composed message follows the sender rule:
\* with SMTP authentication and a display identity that differs from the sender
\* address, the sender address with the display identity as display name; with
\* authentication otherwise, the sender address; without authentication, the
\* display identity if it is not blank and the sender address if it is
C19_FromFollowsSenderRule ==
    \A r \in Slots : msg[r] # NoValue => msg[r].From = SenderRule

----------------------------------------------------------------------------
(* C20: the health endpoint *)

HealthRequest == Request("health", HdrNone, Unparsable, <<>>)

\* the slot the next request that arrives will take
NextSlot(r) == hpc[r] = "idle" /\ \A q \in Slots : q < r => hpc[q] # "idle"

\* C20: while the process runs, GET /health can be served in every reachable
\* state, whatever the configuration and whatever the dispatches are doing, and
\* every health request that arrived was answered at once with 200 and a body
\* that has a status field
C20_HealthAlwaysAnswers ==
    /\ \A r \in Slots : (alive /\ NextSlot(r)) => ENABLED GetHealth(r, HealthRequest)
    /\ \A r \in Slots :
          (inbox[r] # NoValue /\ inbox[r].Route = "health") =>
             /\ hpc[r] = "done"
             /\ resp[r].Status = 200
             /\ "status" \in DOMAIN resp[r].Body
             /\ resp[r].Body.status = "healthy"

\* with an API key configured, a health request without the key was answered
\* 200 after the dispatch of an earlier request had ended on a transport error
C20_Witness ==
    \E r, q \in Slots :
        /\ q < r
        /\ KeyConfigured
        /\ ret[q] \in TransportErrors
        /\ inbox[r] # NoValue /\ inbox[r].Route = "health" /\ KeySent(r) = <<>>
        /\ resp[r].Status = 200 /\ resp[r].Body.status = "healthy"


\* field f of the loaded configuration holds its zero value
Unset(c, f) == c[f] = IF f \in {"APIName", "APIDescription"} THEN <<>> ELSE 0

DefaultOf(f) ==
    CASE f = "APIName" -> DefaultAPIName
      [] f = "APIDescription" -> DefaultAPIDescription
      [] f = "MaxLenRecipientEmail" -> DefaultMaxLenRecipientEmail
      [] f = "MaxLenSubject" -> DefaultMaxLenSubject
      [] f = "MaxLenBody" -> DefaultMaxLenBody

DefaultedFields ==
    {"APIName", "APIDescription", "MaxLenRecipientEmail", "MaxLenSubject", "MaxLenBody"}

HandlerStep(r) == hpc[r] = "idle" /\ hpc'[r] # "idle"

\* the step is one of the goroutine of request r
GoroutineStep(r) == Accepted(r) /\ gpc'[r] # gpc[r]

NamesOf(names) == {names[i] : i \in 1..Len(names)}

\* C22 as stated: every put into the object store is a step of the background
\* unit of a request that was handed off, and no step of an HTTP handler
C22_Original ==
    [][store' # store =>
          /\ \E r \in Slots : GoroutineStep(r)
          /\ \A r \in Slots : ~HandlerStep(r)]_vars

StagedByHandler ==
    [][store' # store =>
          /\ \E r \in Slots :
                /\ HandlerStep(r)
                /\ inbox'[r].Route = "attach"
                /\ validateEmailRequest(FormRequest(inbox'[r].Body), cfg) = Nil
                /\ resp[r] = NoValue
          /\ \A r \in Slots : ~GoroutineStep(r)]_vars

StagedBeforeHandOff ==
    [](\A r \in Slots : Accepted(r) => NamesOf(job[r].AttachmentNames) \subseteq store)

\* C22 (amended): every put into the object store is made by the multipart HTTP
\* handler, after validation succeeded and before the dispatch is handed off and
\* the response is sent; the background unit makes no put, and from the moment a
\* dispatch exists every attachment it names is in the store
C22_StagingInHandler == StagedByHandler /\ StagedBeforeHandOff

\* a request with two files was handed off with both objects stored while its
\* response was still to be sent
C22_Witness ==
    \E r \in Slots :
        /\ hpc[r] = "respond" /\ resp[r] = NoValue
        /\ gpc[r] = "spawned"
        /\ Len(job[r].AttachmentNames) = 2
        /\ NamesOf(job[r].AttachmentNames) \subseteq store

\* the calendar date an instant falls on in UTC
UTCDateOf(now) == now \div TicksPerDay

\* the files of the data/ tree that the step writes
WrittenPaths == {p \in DOMAIN files' : p \notin DOMAIN files \/ files'[p] # files[p]}

\* the step is the one in which the goroutine of r calls saveEmailResult with
\* status s
RecordsStatus(r, s) ==
    /\ GoroutineStep(r)
    /\ gpc[r] \in {"spawned", "delivering"}
    /\ gpc'[r] # "delivering"
    /\ s = IF gpc[r] = "delivering" /\ calls'[r][Len(calls'[r])] = "ok"
           THEN "success" ELSE "failure"

\* C23: the outcome record of an email_id with status s is written at
\* data/{D}/{dir}/{email_id}.json and the debug dump at
\* data/{D}/debug/{email_id}_email.txt, where D is the UTC calendar date at the
\* time of recording and dir is "success" when s is "success" and "failure" for
\* every other status
C23_PathsByUTCDate ==
    [][\A p \in WrittenPaths :
          \E r \in Slots :
             \/ /\ GoroutineStep(r) /\ gpc[r] = "debug"
                /\ p = <<"data", UTCDateOf(clock), "debug", job[r].EmailID \o EmailTxt>>
             \/ \E s \in {"success", "failure"} :
                   /\ RecordsStatus(r, s)
                   /\ files'[p] # Truncated => files'[p].Status = s
                   /\ p = <<"data", UTCDateOf(clock),
                            IF s = "success" THEN "success" ELSE "failure",
                            job[r].EmailID \o Json>>]_vars

\* file p of the data/ tree is named after email_id id
NamedFor(p, id) == p[4] \in {id \o Json, id \o EmailTxt}

\* the dispatches of r and q are both between the transport call and its return
BothDelivering(r, q) == r # q /\ alive /\ gpc[r] = "delivering" /\ gpc[q] = "delivering"

\* a step of the dispatch of r writes files of r and of no other request
OwnFilesOnly(r) ==
    /\ \A p \in WrittenPaths : NamedFor(p, job[r].EmailID)
    /\ \A q \in Slots \ {r} :
          Accepted(q) =>
             /\ \A p \in WrittenPaths : ~NamedFor(p, job[q].EmailID)
             /\ \A p \in FilesOf(job[q].EmailID) :
                   p \in DOMAIN files' /\ files'[p] = files[p]

WritesOwnFilesOnly ==
    [][IF \E r \in Slots : GoroutineStep(r)
       THEN \A r \in Slots : GoroutineStep(r) => OwnFilesOnly(r)
       ELSE files' = files]_vars

RecordAsIfAlone ==
    [](\A r \in Slots :
          Accepted(r) =>
             \A p \in RecordPaths(job[r].EmailID) :
                 files[p] # Truncated =>
                    /\ files[p].EmailID = job[r].EmailID
                    /\ files[p].ClientIP = job[r].ClientIP
                    /\ files[p].Headers = job[r].Headers
                    /\ files[p].MessageLength \in {0, MessageLength(job[r].Req)}
                    /\ AgreesWithDispatch(files[p], p[3], r))

EitherWritesFirst ==
    [](\A r, q \in Slots :
          BothDelivering(r, q) =>
             /\ ENABLED TransportSucceeds(r, "written")
             /\ ENABLED TransportSucceeds(q, "written")
             /\ \A e \in TransportErrors :
                   ENABLED TransportFails(r, e, "written")
                   /\ ENABLED TransportFails(q, e, "written"))

\* C24: whatever the interleaving of the background dispatches, a step of one
\* dispatch writes only files named after its own email_id and leaves every
\* file of every other dispatch as it was, and no other step writes a file; the
\* content of a record is made of its own request and its own transport result
\* alone; and while two dispatches are both delivering, either may write its
\* record first
C24_DispatchesIndependent == WritesOwnFilesOnly /\ RecordAsIfAlone /\ EitherWritesFirst

\* the later of two accepted requests has its record written while the dispatch
\* of the earlier one is still delivering and has written nothing
C24_Witness ==
    \E r, q \in Slots :
        /\ r < q
        /\ Accepted(r) /\ Accepted(q)
        /\ gpc[r] = "delivering" /\ writes[r] = <<>>
        /\ DispatchEnded(q)
        /\ OutcomeRecords(job[q].EmailID) # {}
        /\ OutcomeRecords(job[r].EmailID) = {}

\* what SendEmail returns for request r when every write succeeds: nil after a
\* delivery, the transport error after a failed one, the fetch error when an
\* attachment could not be added
ReturnOf(r) ==
    IF calls[r] = <<>> THEN FetchError
    ELSE IF calls[r][1] = "ok" THEN "nil" ELSE calls[r][1]

WriteFailureChangesNothing ==
    [](\A r \in Slots :
          /\ Cardinality(ResultWrites(r)) <= 1
          /\ Cardinality(DebugWrites(r)) <= 1
          /\ Len(writes[r]) <= 2
          /\ (Accepted(r) /\ DispatchEnded(r)) =>
                /\ ret[r] = ReturnOf(r)
                /\ (calls[r] = <<"ok">> /\ job[r].Req.Debug) => DebugWrites(r) # {}
          /\ (alive /\ gpc[r] = "debug") =>
                \A o \in WriteOutcomes : ENABLED SaveDebug(r, o)
          /\ (Accepted(r) /\ Answered(r)) =>
                resp[r] = Response(200, AcceptedBody(job[r].EmailID)))

WriteLeavesResponses ==
    [][writes' # writes => (resp' = resp /\ hpc' = hpc)]_vars

\* C25: a record or dump that cannot be written does not change the dispatch:
\* each file is attempted at most once, SendEmail returns what it returns when
\* the write succeeds (nil after a delivery, the transport error after a failed
\* one), the debug dump is still attempted after a failed success-record
\* write, and no write, failed or not, touches an HTTP response
C25_WriteFailureIsIgnored == WriteFailureChangesNothing /\ WriteLeavesResponses

\* a delivered request with the debug flag whose success record could not be
\* written: the dump was attempted all the same, SendEmail returned nil and
\* the caller holds its 200
C25_Witness ==
    \E r \in Slots :
        /\ Accepted(r) /\ DispatchEnded(r) /\ Answered(r)
        /\ Len(writes[r]) = 2
        /\ writes[r][1] = <<"result", "failed">>
        /\ writes[r][2][1] = "debug"
        /\ ret[r] = "nil"
        /\ resp[r].Status = 200

\* the addAttachment call that failed in the dispatch of request r, if any
FailedFetch(r) == {i \in 1..Len(fetches[r]) : fetches[r][i][2] = FetchError}

\* the dispatch of r asked for its first k attachments, in order, and the k-th
\* was the one that failed
StoppedAtFailure(r) ==
    \E k \in 1..Len(job[r].AttachmentNames) :
        /\ Len(fetches[r]) = k
        /\ \A i \in 1..k : fetches[r][i][1] = job[r].AttachmentNames[i]
        /\ FailedFetch(r) = {k}

\* the whole failure records of email_id id that tell of an attachment
AttachmentFailureRecords(id) ==
    {p \in OutcomeRecords(id) :
        /\ p[3] = "failure"
        /\ files[p].Status = "failure"
        /\ files[p].Detail[1] = "Failed to add attachment: %v"}

\* C26 as stated: when an attachment cannot be fetched, the attachments after it
\* are not fetched, the transport is never called, exactly one failure record
\* is written whose detail begins "Failed to add attachment", and SendEmail
\* returns that error
C26_Original ==
    \A r \in Slots :
        (Accepted(r) /\ FailedFetch(r) # {}) =>
           /\ StoppedAtFailure(r)
           /\ calls[r] = <<>>
           /\ OutcomeRecords(job[r].EmailID) = AttachmentFailureRecords(job[r].EmailID)
           /\ Cardinality(OutcomeRecords(job[r].EmailID)) = 1
           /\ ret[r] = FetchError

\* C26 (amended): when an attachment cannot be fetched, the attachments after it
\* are not fetched, the transport is never called, exactly one attempt is made
\* to write an outcome record, a failure record whose detail begins "Failed to
\* add attachment", which exists when that write wrote the whole file and is
\* then the only record of the email_id, and SendEmail returns that error
C26_FetchFailureEndsDispatch ==
    \A r \in Slots :
        (Accepted(r) /\ FailedFetch(r) # {}) =>
           /\ StoppedAtFailure(r)
           /\ calls[r] = <<>> /\ msg[r] = NoValue
           /\ DispatchEnded(r)
           /\ Len(writes[r]) = 1 /\ writes[r][1][1] = "result"
           /\ OutcomeRecords(job[r].EmailID) = AttachmentFailureRecords(job[r].EmailID)
           /\ Cardinality(OutcomeRecords(job[r].EmailID)) =
                 (IF writes[r][1][2] = "written" THEN 1 ELSE 0)
           /\ ret[r] = FetchError

\* the first of two attachments could not be fetched: the second was not asked
\* for, the transport was not called and the failure record is there
C26_Witness ==
    \E r \in Slots :
        /\ Accepted(r)
        /\ Len(job[r].AttachmentNames) = 2
        /\ Len(fetches[r]) = 1 /\ FailedFetch(r) = {1}
        /\ calls[r] = <<>>
        /\ Cardinality(AttachmentFailureRecords(job[r].EmailID)) = 1
        /\ ret[r] = FetchError

\* the number of line feeds of text s
LineFeeds(s) == Cardinality({i \in 1..Len(s) : s[i] = NL})

\* text s holds a "//"
HasComment(s) == \E i \in 1..(Len(s) - 1) : s[i] = Slash /\ s[i + 1] = Slash

\* what is in front of the first "//" of line
BeforeComment(line) ==
    LET first == CHOOSE i \in 1..(Len(line) - 1) :
                    /\ line[i] = Slash /\ line[i + 1] = Slash
                    /\ ~HasComment(SubSeq(line, 1, i))
    IN SubSeq(line, 1, first - 1)

\* line without the blanks at its two ends
Trimmed(line) ==
    LET inner == {i \in 1..Len(line) : ~IsSpace(line[i])}
    IN IF inner = {} THEN <<>>
       ELSE SubSeq(line, CHOOSE i \in inner : \A k \in inner : i <= k,
                         CHOOSE i \in inner : \A k \in inner : i >= k)

C28_SameDecision ==
    (vout.JSON # Undecided /\ vout.Form # Undecided) =>
       (vout.JSON = 200 <=> vout.Form = 200)

\* the record files of the data/ tree, whatever they hold
AllRecordPaths == {p \in DOMAIN files : p[3] \in {"success", "failure"}}

OneStatusPerIdentifier ==
    [](\A p, q \in AllRecordPaths : p[4] = q[4] => p = q)

RecordKeepsStatus ==
    [][\A p \in AllRecordPaths :
          /\ p \in DOMAIN files'
          /\ files[p] # Truncated => files'[p] = files[p]]_vars

\* C29: in every reachable state an email_id has at most one outcome record,
\* under success or under failure and never under both, and a record once
\* written stays where it is and keeps its content, its status included
C29_NeverBothStatuses == OneStatusPerIdentifier /\ RecordKeepsStatus

\* two dispatches have ended, one recorded as success and one as failure, and
\* neither identifier has a record in the other directory
C29_Witness ==
    \E r, q \in Slots :
        /\ Accepted(r) /\ Accepted(q) /\ DispatchEnded(r) /\ DispatchEnded(q)
        /\ \E p \in OutcomeRecords(job[r].EmailID) : p[3] = "success"
        /\ \E p \in OutcomeRecords(job[q].EmailID) : p[3] = "failure"
        /\ Cardinality(RecordPaths(job[r].EmailID)) = 1
        /\ Cardinality(RecordPaths(job[q].EmailID)) = 1

\* in this step the multipart handler runs for request r, whose form is valid
\* and has no more files than allowed, and turns it down at one of its files
RejectedAtAFile(r) ==
    /\ HandlerStep(r)
    /\ inbox'[r].Route = "attach"
    /\ ~inbox'[r].Body.Malformed
    /\ validateEmailRequest(FormRequest(inbox'[r].Body), cfg) = Nil
    /\ Len(inbox'[r].Files) <= MaxAttachments
    /\ resp'[r] # NoValue
    /\ resp'[r].Status \in {400, 500}

\* the file at which the step turns request r down: the one after the files
\* that got their UUID and went to the store (a file whose upload fails has got
\* its UUID)
RejectedFile(r) ==
    IF resp'[r].Body.error = "Failed to upload attachment"
    THEN nextUUID' - nextUUID
    ELSE nextUUID' - nextUUID + 1

StoreOnlyGrows == [][store \subseteq store']_vars

EarlierFilesStay ==
    [][\A r \in Slots :
          RejectedAtAFile(r) =>
             /\ RejectedFile(r) \in 1..Len(inbox'[r].Files)
             /\ resp'[r].Body.error = "Attachments must be smaller than 2MB" =>
                   /\ inbox'[r].Files[RejectedFile(r)].Size > MaxAttachmentBytes
                   /\ \A i \in 1..(RejectedFile(r) - 1) :
                         inbox'[r].Files[i].Size <= MaxAttachmentBytes
             /\ \A i \in 1..(RejectedFile(r) - 1) :
                   ObjectName(NewUUID(nextUUID + i - 1), inbox'[r].Files[i].Filename)
                      \in store'
             /\ Cardinality(store' \ store) = RejectedFile(r) - 1
             /\ job'[r] = NoValue /\ gpc'[r] = "none" /\ hpc'[r] = "done"]_vars

NeverDispatched ==
    [](\A r \in Slots : Rejected(r) => (job[r] = NoValue /\ gpc[r] = "none"))

\* C30: no step removes an object from the attachment store; when the multipart
\* handler turns a request down at its k-th file (too large, not readable, or
\* not uploaded), the objects stored for files 1..k-1 are in the store after
\* the step and stay there, the request is answered with an error and it is
\* never dispatched
C30_StoreOnlyGrows == StoreOnlyGrows /\ EarlierFilesStay /\ NeverDispatched

\* a request was turned down at its second file and has no dispatch, while the
\* object of its first file is in the store
C30_Witness ==
    \E r \in Slots :
        /\ Rejected(r)
        /\ inbox[r].Route = "attach"
        /\ Len(inbox[r].Files) = 2
        /\ resp[r].Status = 500
        /\ job[r] = NoValue
        /\ \E name \in store : IsObjectNameOf(name, inbox[r].Files[1].Filename)
====
